---- MODULE Spec2Model ----
(***************************************************************************)
(* A model of the dispatch core of luban: the message loop                 *)
(* (packages/messaging/src/MessageLoop.ts), the signal connection registry *)
(* (packages/signaling/src/Signal.ts) and the deferred cleaner             *)
(* (packages/utils/src/schedule.ts).                                       *)
(*                                                                         *)
(* The program is single threaded; hooks, handlers and slots are user code *)
(* that may call back into the API.  The model keeps an explicit call      *)
(* stack: a frame is a running drain (runMessageLoop), a running           *)
(* sendMessage or a running emit.  API calls are enabled at top level      *)
(* (empty stack) and while the top frame is executing user code; scheduled *)
(* tasks fire only at top level (a new turn of the host event loop).       *)
(***************************************************************************)
EXTENDS Integers, Sequences, FiniteSets, TLC

\* ------------------------------------------------------------------ bounds
MaxPosts == 3        \* queue entries appended over a run
MaxHookPosts == 2    \* entries appended over a run of SpecHooks
MaxSends == 1        \* direct sendMessage calls over a run
MaxDepth == 4        \* frames on the call stack
MaxConns == 2        \* connection objects reachable at a time
MaxItems == 3        \* entries of an array handed to a ScheduledCleaner
MaxWired == 3       \* connections of a registry that was wired beforehand
MaxEmitDepth == 2    \* nested emit calls
MaxHooks == 2        \* length of a handler's hook list
MaxTaskIds == 2      \* scheduler handles per callback

\* ------------------------------------------------------------------ values
NULL == "null"

Handlers == {"h1", "h2"}

Hooks == {"k1", "k2"}

\* Message: type, isConflatable and the result of conflate(other).
NullMsg == [type |-> NULL, isConflatable |-> FALSE, conflate |-> FALSE]

\* A plain Message.
PlainMsg(t) == [type |-> t, isConflatable |-> FALSE, conflate |-> FALSE]

\* A ConflatableMessage: isConflatable and conflate() are always true.
ConflatableMessage(t) == [type |-> t, isConflatable |-> TRUE, conflate |-> TRUE]

\* A stateful Message subclass whose conflate() declines.
DecliningMsg(t) == [type |-> t, isConflatable |-> TRUE, conflate |-> FALSE]

Messages == {PlainMsg("a"), ConflatableMessage("a"), ConflatableMessage("b"), DecliningMsg("a")}

VARIABLES
  messageQueue,   \* Seq of PostedMessage [id, handler, msg]; id is the object identity
  loopTaskID,     \* handle of the scheduled loop run, 0 when none
  flushGuard,     \* MessageLoop's recursion guard
  messageHooks,   \* handler -> Seq of hook or NULL
  hookCleaner,    \* ScheduledCleaner [dirtySet, scheduleId, flushGuard]
  tasks,          \* the host scheduler: pending tasks [id, fn]
  stack,          \* call stack of running drains and sendMessage calls
  delivered,      \* log of processMessage invocations [entry, handler]
  popFault,       \* a drain shifted an empty queue and dereferenced undefined
  posts,          \* number of entries appended so far (the next entry id - 1)
  sends,          \* number of direct sendMessage calls so far
  conns,          \* the IConnection objects ever created: Seq of [signal, slot, context]
  receiversForSender,  \* object -> Seq of connection (index into conns)
  sendersForReceiver,  \* object -> Seq of connection (index into conns)
  connectionCleaner,   \* ScheduledCleaner [dirtySet, scheduleId, flushGuard]
  emitStack,      \* call stack of running emit calls
  lastOp          \* what the last step returned to its caller or handed to the
                  \* exception handler; Op("step", "") for a step that did neither

loopVars == <<messageQueue, loopTaskID, flushGuard, messageHooks, hookCleaner,
              stack, delivered, popFault, posts, sends>>

sigVars == <<conns, receiversForSender, sendersForReceiver, connectionCleaner,
             emitStack>>

vars == <<loopVars, sigVars, tasks, lastOp>>

\* ------------------------------------------------------------------ helpers
Last(s) == s[Len(s)]

Pop(s) == SubSeq(s, 1, Len(s) - 1)

SetTop(s, f) == [s EXCEPT ![Len(s)] = f]

RECURSIVE Reverse(_)
Reverse(s) == IF s = <<>> THEN <<>> ELSE Append(Reverse(Tail(s)), Head(s))

\* A removal that stops after the first entry it removes.
SelectSeqByFirst(s, dead) ==
  IF \E k \in 1..Len(s) : s[k] \in dead
    THEN LET i == CHOOSE k \in 1..Len(s) :
                    s[k] \in dead /\ \A j \in 1..(k - 1) : s[j] \notin dead
         IN [k \in 1..(Len(s) - 1) |-> IF k < i THEN s[k] ELSE s[k + 1]]
    ELSE s

RECURSIVE SelectSeqBy(_, _)
\* lodash.remove(items, pred) leaves the entries for which pred fails, in order.
SelectSeqBy(s, dead) ==
  IF s = <<>> THEN <<>>
  ELSE IF Head(s) \in dead THEN SelectSeqBy(Tail(s), dead)
       ELSE <<Head(s)>> \o SelectSeqBy(Tail(s), dead)

\* ------------------------------------------------------------------ scheduler
\* schedule() returns a handle that no pending task has.  Each caller stores its
\* handles in a variable of its own, which the call overwrites, so handles are
\* drawn from one pool per callback: a handle can only ever be confused with
\* another handle of the same caller.
TaskFns == <<"runMessageLoop", "hookCleaner", "connectionCleaner">>

TaskPool(fn) ==
  LET base == (CHOOSE k \in 1..Len(TaskFns) : TaskFns[k] = fn) * 10
  IN {base + i : i \in 1..MaxTaskIds}

FreshTaskIdIn(tk, fn) ==
  LET pending == {t.id : t \in tk}
  IN CHOOSE i \in TaskPool(fn) :
       /\ i \notin pending
       /\ \A j \in TaskPool(fn) : j < i => j \in pending

FreshTaskId(fn) == FreshTaskIdIn(tasks, fn)

schedule(tk, id, fn) == tk \cup {[id |-> id, fn |-> fn]}

unschedule(tk, id) == {t \in tk : t.id # id}

\* ------------------------------------------------------------------ ScheduledCleaner
NewCleaner == [dirtySet |-> {}, scheduleId |-> 0, flushGuard |-> FALSE]

\* clean(items): the cleaner after the call.
CleanerClean(c, items, id) ==
  [c EXCEPT !.scheduleId = IF c.dirtySet = {} THEN id ELSE @,
            !.dirtySet = @ \cup {items}]

\* clean(items): the scheduler after the call.
CleanerCleanTasks(c, tk, id, fn) ==
  IF c.dirtySet = {} THEN schedule(tk, id, fn) ELSE tk

\* dump(): the cleaner after the compaction pass.
CleanerDump(c) == [c EXCEPT !.dirtySet = {}]

\* cancel(): the cleaner after the call.
CleanerCancel(c) == [c EXCEPT !.scheduleId = 0]

\* cancel() that leaves the task with the scheduler.
CleanerCancelKeepsTask(c, tk) == tk

\* cancel(): the scheduler after the call.
CleanerCancelTasks(c, tk) ==
  IF c.scheduleId # 0 THEN unschedule(tk, c.scheduleId) ELSE tk

\* flush() returns at once when it is running already or nothing is scheduled.
CleanerFlushBails(c) == c.flushGuard \/ c.scheduleId = 0

isNullHook(hook) == hook = NULL

\* ------------------------------------------------------------------ frames
NoFrameHooks == <<>>

\* A running runMessageLoop.  start and done are history: the live entries the
\* queue held when the drain began, and the entries the drain has shifted from
\* the queue so far.
DrainFrame(sentinel, byFlush, start) ==
  [kind |-> "drain", sentinel |-> sentinel, byFlush |-> byFlush, start |-> start, done |-> {},
   handler |-> NULL, msg |-> NullMsg, entry |-> 0, hooks |-> NoFrameHooks,
   i |-> 0, phase |-> "loop"]

SendFrame(handler, msg, entry, hooks, phase) ==
  [kind |-> "send", sentinel |-> 0, byFlush |-> FALSE, start |-> {}, done |-> {},
   handler |-> handler, msg |-> msg, entry |-> entry, hooks |-> hooks,
   i |-> 1, phase |-> phase]

Top == Last(stack)

\* User code is running: top level, or inside a hook or a handler.
UserCode ==
  IF stack = <<>> THEN TRUE
  ELSE Top.kind = "send" /\ Top.phase \in {"inhook", "inhandler"}

\* A user call that starts a drain or a send needs room for its frames.
Room == Len(stack) + 2 <= MaxDepth

Op(op, res) == [op |-> op, res |-> res]

\* ------------------------------------------------------------------ sendMessage
\* sendMessage(handler, msg): the frame it starts with.  With no hooks the
\* handler is invoked at once; else the chain runs over a reversed copy.
sendMessage(handler, msg, entry) ==
  LET hooks == messageHooks[handler]
  IN IF Len(hooks) = 0
       THEN SendFrame(handler, msg, entry, NoFrameHooks, "inhandler")
       ELSE SendFrame(handler, msg, entry, Reverse(hooks), "next")

\* The delivery log after a frame is started or advanced to f.
Logged(f) ==
  IF f.phase = "inhandler"
    THEN Append(delivered, [entry |-> f.entry, handler |-> f.handler])
    ELSE delivered

SendMessage(handler, msg) ==
  /\ UserCode /\ Room
  /\ sends < MaxSends
  /\ LET f == sendMessage(handler, msg, 0)
     IN /\ stack' = Append(stack, f)
        /\ delivered' = Logged(f)
  /\ sends' = sends + 1
  /\ lastOp' = Op("sendMessage", "sent")
  /\ UNCHANGED <<messageQueue, loopTaskID, flushGuard, messageHooks, hookCleaner,
                 tasks, popFault, posts>>
  /\ UNCHANGED sigVars

\* One step of the `every` over the reversed copy of the hooks.
ChainStep ==
  /\ stack # <<>> /\ Top.kind = "send" /\ Top.phase = "next"
  /\ LET f == Top
         g == IF f.i > Len(f.hooks)
                THEN [f EXCEPT !.phase = "inhandler"]
                ELSE IF f.hooks[f.i] = NULL
                       THEN [f EXCEPT !.i = @ + 1]
                       ELSE [f EXCEPT !.phase = "inhook"]
     IN /\ stack' = SetTop(stack, g)
        /\ delivered' = Logged(g)
  /\ UNCHANGED <<messageQueue, loopTaskID, flushGuard, messageHooks, hookCleaner,
                 tasks, popFault, posts, sends>>
  /\ lastOp' = Op("step", "")
  /\ UNCHANGED sigVars

\* Vetoed going on with the next hook of the chain.
VetoIgnored(stk) == SetTop(stk, [Last(stk) EXCEPT !.i = @ + 1, !.phase = "next"])

\* A hook returned false: every() stops and sendMessage returns.
Vetoed(stk) == Pop(stk)

\* A hook returned true: every() goes on with the next hook of the copy.
Passed(stk) == SetTop(stk, [Last(stk) EXCEPT !.i = @ + 1, !.phase = "next"])

\* A throwing hook counted as a veto.
ThrowVetoes == FALSE

\* invokeHook: `let result = true` is what it returns when the hook throws.
ThrowResult == TRUE

\* An exception that no try block catches: every running call is left.
Uncaught(stk) == <<>>

\* An exception leaves the user code of the top frame of stk: invokeHook's
\* catch leaves the hook's result at its default, invokeHandler's catch ends
\* the send.
Caught(stk) ==
  IF stk = <<>> THEN stk
  ELSE IF Last(stk).phase = "inhook"
         THEN IF ThrowResult THEN Passed(stk) ELSE Vetoed(stk)
         ELSE Pop(stk)

\* The running hook returns result.
HookReturn(result) ==
  /\ stack # <<>> /\ Top.kind = "send" /\ Top.phase = "inhook"
  /\ stack' = IF result THEN Passed(stack) ELSE Vetoed(stack)
  /\ UNCHANGED <<messageQueue, loopTaskID, flushGuard, messageHooks, hookCleaner,
                 tasks, delivered, popFault, posts, sends>>
  /\ lastOp' = Op("hook", IF result THEN "true" ELSE "false")
  /\ UNCHANGED sigVars

\* The running hook throws.
HookThrow ==
  /\ stack # <<>> /\ Top.kind = "send" /\ Top.phase = "inhook"
  /\ stack' = Caught(stack)
  /\ UNCHANGED <<messageQueue, loopTaskID, flushGuard, messageHooks, hookCleaner,
                 tasks, delivered, popFault, posts, sends>>
  /\ lastOp' = Op("exceptionHandler", "loop")
  /\ UNCHANGED sigVars

\* processMessage returns.
HandlerReturn ==
  /\ stack # <<>> /\ Top.kind = "send" /\ Top.phase = "inhandler"
  /\ stack' = Pop(stack)
  /\ UNCHANGED <<messageQueue, loopTaskID, flushGuard, messageHooks, hookCleaner,
                 tasks, delivered, popFault, posts, sends>>
  /\ lastOp' = Op("step", "")
  /\ UNCHANGED sigVars

\* processMessage throws.
HandlerThrow ==
  /\ stack # <<>> /\ Top.kind = "send" /\ Top.phase = "inhandler"
  /\ stack' = Caught(stack)
  /\ UNCHANGED <<messageQueue, loopTaskID, flushGuard, messageHooks, hookCleaner,
                 tasks, delivered, popFault, posts, sends>>
  /\ lastOp' = Op("exceptionHandler", "loop")
  /\ UNCHANGED sigVars

\* ------------------------------------------------------------------ postMessage
\* Candidate without the test of the handler.
CandidateAnyHandler(posted, handler, msg) ==
  /\ posted.msg # NullMsg
  /\ posted.msg.type = msg.type
  /\ posted.msg.isConflatable

\* The tests of the conflation scan that precede the call of conflate().
Candidate(posted, handler, msg) ==
  /\ posted.handler = handler
  /\ posted.msg # NullMsg
  /\ posted.msg.type = msg.type
  /\ posted.msg.isConflatable

\* The callback of messageQueue.some(): posted.msg.conflate(msg).
Conflates(posted, handler, msg) ==
  Candidate(posted, handler, msg) /\ posted.msg.conflate

\* conflated with every() in place of some().
conflatedEvery(handler, msg) ==
  \A k \in 1..Len(messageQueue) :
    /\ messageQueue[k].handler = handler
    /\ messageQueue[k].msg # NullMsg
    /\ messageQueue[k].msg.type = msg.type
    /\ messageQueue[k].msg.isConflatable
    /\ messageQueue[k].msg.conflate

\* conflated deciding by the first candidate alone.
conflatedFirstCandidate(handler, msg) ==
  \E k \in 1..Len(messageQueue) :
    /\ Conflates(messageQueue[k], handler, msg)
    /\ \A j \in 1..(k - 1) : ~Candidate(messageQueue[j], handler, msg)

\* messageQueue.some(...): some entry conflates the message.
conflated(handler, msg) ==
  \E k \in 1..Len(messageQueue) : Conflates(messageQueue[k], handler, msg)

\* Enqueued with unshift() in place of push().
EnqueuedFront(q, posted) == <<posted>> \o q

\* Enqueued pushing the entry twice.
EnqueuedTwice(q, posted) == Append(Append(q, posted), posted)

\* enqueueMessage: the queue after the push.
Enqueued(q, posted) == Append(q, posted)

\* NeedsSchedule testing the queue in place of the task handle.
NeedsScheduleIfEmpty == messageQueue = <<>>

\* enqueueMessage: a loop run is scheduled unless one is pending.
NeedsSchedule == loopTaskID = 0

enqueueMessage(handler, msg) ==
  /\ posts < MaxPosts
  /\ messageQueue' = Enqueued(messageQueue, [id |-> posts + 1, handler |-> handler, msg |-> msg])
  /\ posts' = posts + 1
  /\ IF NeedsSchedule
       THEN /\ loopTaskID' = FreshTaskId("runMessageLoop")
            /\ tasks' = schedule(tasks, FreshTaskId("runMessageLoop"), "runMessageLoop")
       ELSE UNCHANGED <<loopTaskID, tasks>>

PostMessage(handler, msg) ==
  /\ UserCode
  /\ IF ~msg.isConflatable
       THEN enqueueMessage(handler, msg) /\ lastOp' = Op("postMessage", "appended")
       ELSE IF ~conflated(handler, msg)
              THEN enqueueMessage(handler, msg) /\ lastOp' = Op("postMessage", "appended")
              ELSE /\ lastOp' = Op("postMessage", "conflated")
                   /\ UNCHANGED <<messageQueue, posts, loopTaskID, tasks>>
  /\ UNCHANGED <<flushGuard, messageHooks, hookCleaner, stack, delivered, popFault, sends>>
  /\ UNCHANGED sigVars

\* ------------------------------------------------------------------ hooks
\* indexOf that finds nothing.
indexOfNothing(hooks, hook) == 0

indexOf(hooks, hook) ==
  IF \E k \in 1..Len(hooks) : hooks[k] = hook
    THEN CHOOSE k \in 1..Len(hooks) : hooks[k] = hook /\ \A j \in 1..(k - 1) : hooks[j] # hook
    ELSE 0

InstallMessageHook(handler, hook) ==
  /\ UserCode
  /\ LET hooks == messageHooks[handler]
     IN IF indexOf(hooks, hook) # 0
          THEN /\ lastOp' = Op("installMessageHook", "noop")
               /\ UNCHANGED messageHooks
          ELSE /\ Len(hooks) < MaxHooks
               /\ lastOp' = Op("installMessageHook", "installed")
               /\ messageHooks' = [messageHooks EXCEPT ![handler] = Append(hooks, hook)]
  /\ UNCHANGED <<messageQueue, loopTaskID, flushGuard, hookCleaner, tasks, stack,
                 delivered, popFault, posts, sends>>
  /\ UNCHANGED sigVars

\* Nulled taking the entry out of the list.
Spliced(hooks, i) == [k \in 1..(Len(hooks) - 1) |-> IF k < i THEN hooks[k] ELSE hooks[k + 1]]

\* Nulled leaving the entry as it is.
NotNulled(hooks, i) == hooks

\* removeMessageHook: hooks[i] = null
Nulled(hooks, i) == [hooks EXCEPT ![i] = NULL]

RemoveMessageHook(handler, hook) ==
  /\ UserCode
  /\ LET hooks == messageHooks[handler]
         i == indexOf(hooks, hook)
     IN IF i = 0
          THEN /\ lastOp' = Op("removeMessageHook", "noop")
               /\ UNCHANGED <<messageHooks, hookCleaner, tasks>>
          ELSE /\ lastOp' = Op("removeMessageHook", "removed")
               /\ messageHooks' = [messageHooks EXCEPT ![handler] = Nulled(hooks, i)]
               /\ hookCleaner' = CleanerClean(hookCleaner, handler, FreshTaskId("hookCleaner"))
               /\ tasks' = CleanerCleanTasks(hookCleaner, tasks, FreshTaskId("hookCleaner"), "hookCleaner")
  /\ UNCHANGED <<messageQueue, loopTaskID, flushGuard, stack, delivered, popFault, posts, sends>>
  /\ UNCHANGED sigVars

\* A clearing that stops at the first entry of the handler.
ClearedFirst(q, handler) ==
  [k \in 1..Len(q) |->
     IF q[k].handler = handler /\ \A j \in 1..(k - 1) : q[j].handler # handler
       THEN [q[k] EXCEPT !.handler = NULL, !.msg = NullMsg]
       ELSE q[k]]

\* clearData: the queue with the handler's entries cleared in place.
Cleared(q, handler) ==
  [k \in 1..Len(q) |->
     IF q[k].handler = handler
       THEN [q[k] EXCEPT !.handler = NULL, !.msg = NullMsg]
       ELSE q[k]]

ClearData(handler) ==
  /\ UserCode
  /\ LET hooks == messageHooks[handler]
     IN IF Len(hooks) > 0
          THEN /\ messageHooks' = [messageHooks EXCEPT ![handler] = [k \in 1..Len(hooks) |-> NULL]]
               /\ hookCleaner' = CleanerClean(hookCleaner, handler, FreshTaskId("hookCleaner"))
               /\ tasks' = CleanerCleanTasks(hookCleaner, tasks, FreshTaskId("hookCleaner"), "hookCleaner")
          ELSE UNCHANGED <<messageHooks, hookCleaner, tasks>>
  /\ messageQueue' = Cleared(messageQueue, handler)
  /\ lastOp' = Op("clearData", "cleared")
  /\ UNCHANGED <<loopTaskID, flushGuard, stack, delivered, popFault,
                 posts, sends>>
  /\ UNCHANGED sigVars

\* The scheduled compaction of the hook lists fires.
HookCleanerTask ==
  /\ stack = <<>>
  /\ \E t \in tasks :
       /\ t.fn = "hookCleaner"
       /\ tasks' = tasks \ {t}
  /\ messageHooks' = [h \in Handlers |->
                        IF h \in hookCleaner.dirtySet
                          THEN SelectSeqBy(messageHooks[h], {x \in {NULL} : isNullHook(x)})
                          ELSE messageHooks[h]]
  /\ hookCleaner' = CleanerDump(hookCleaner)
  /\ UNCHANGED <<messageQueue, loopTaskID, flushGuard, stack, delivered, popFault, posts, sends>>
  /\ lastOp' = Op("step", "")
  /\ UNCHANGED sigVars

\* ------------------------------------------------------------------ the loop
\* A sentinel object is distinct from every object in the queue and from the
\* sentinels of the drains still running.
FreshSentinel ==
  LET used == {messageQueue[k].id : k \in 1..Len(messageQueue)}
                \cup {stack[k].sentinel : k \in 1..Len(stack)}
  IN 0 - (CHOOSE i \in 1..(MaxDepth + 1) :
            /\ (0 - i) \notin used
            /\ \A j \in 1..(i - 1) : (0 - j) \in used)

Sentinel(id) == [id |-> id, handler |-> NULL, msg |-> NullMsg]

\* The entries of q that are posted messages not cleared so far.
LiveIds(q) == {q[k].id : k \in {j \in 1..Len(q) : q[j].handler # NULL /\ q[j].msg # NullMsg}}

\* runMessageLoop up to the start of its while loop; byFlush tells who called.
runMessageLoop(byFlush) ==
  /\ loopTaskID' = 0
  /\ IF Len(messageQueue) = 0
       THEN /\ UNCHANGED <<messageQueue, stack>>
            /\ flushGuard' = FALSE
       ELSE /\ messageQueue' = Append(messageQueue, Sentinel(FreshSentinel))
            /\ stack' = Append(stack, DrainFrame(FreshSentinel, byFlush, LiveIds(messageQueue)))
            /\ flushGuard' = byFlush

\* FlushBails without the recursion guard.
FlushBailsNoGuard == loopTaskID = 0

\* flush() returns at once.
FlushBails == flushGuard \/ loopTaskID = 0

Flush ==
  /\ UserCode
  /\ IF FlushBails
       THEN /\ lastOp' = Op("flush", "noop")
            /\ UNCHANGED <<messageQueue, loopTaskID, flushGuard, tasks, stack>>
       ELSE /\ Room
            /\ tasks' = unschedule(tasks, loopTaskID)
            /\ runMessageLoop(TRUE)
            /\ lastOp' = Op("flush", "drain")
  /\ UNCHANGED <<messageHooks, hookCleaner, delivered, popFault, posts, sends>>
  /\ UNCHANGED sigVars

\* The scheduled loop task fires.
RunLoopTask ==
  /\ stack = <<>>
  /\ \E t \in tasks :
       /\ t.fn = "runMessageLoop"
       /\ tasks' = tasks \ {t}
  /\ loopTaskID' = 0
  /\ IF Len(messageQueue) = 0
       THEN UNCHANGED <<messageQueue, stack>>
       ELSE /\ messageQueue' = Append(messageQueue, Sentinel(FreshSentinel))
            /\ stack' = Append(stack, DrainFrame(FreshSentinel, FALSE, LiveIds(messageQueue)))
  /\ lastOp' = Op("task", "runMessageLoop")
  /\ UNCHANGED <<flushGuard, messageHooks, hookCleaner, delivered,
                 popFault, posts, sends>>
  /\ UNCHANGED sigVars

\* One iteration of the while loop of the drain on top of the stack.
DrainStep ==
  /\ stack # <<>> /\ Top.kind = "drain"
  /\ IF Len(messageQueue) = 0
       THEN \* shift() gave undefined: posted.handler throws a TypeError, which
            \* leaves runMessageLoop (and flush, before it resets its guard).
            /\ popFault' = TRUE
            /\ stack' = Caught(Pop(stack))
            /\ UNCHANGED <<messageQueue, flushGuard, delivered>>
       ELSE LET posted == Head(messageQueue)
            IN /\ messageQueue' = Tail(messageQueue)
               /\ UNCHANGED <<popFault>>
               /\ IF posted.id = Top.sentinel
                    THEN /\ stack' = Pop(stack)
                         /\ flushGuard' = IF Top.byFlush THEN FALSE ELSE flushGuard
                         /\ UNCHANGED delivered
                    ELSE IF posted.handler # NULL /\ posted.msg # NullMsg
                           THEN LET f == sendMessage(posted.handler, posted.msg, posted.id)
                                IN /\ stack' = Append(SetTop(stack, [Top EXCEPT !.done = @ \cup {posted.id}]), f)
                                   /\ delivered' = Logged(f)
                                   /\ UNCHANGED flushGuard
                           ELSE /\ stack' = IF posted.id > 0
                                              THEN SetTop(stack, [Top EXCEPT !.done = @ \cup {posted.id}])
                                              ELSE stack
                                /\ UNCHANGED <<flushGuard, delivered>>
  /\ UNCHANGED <<loopTaskID, messageHooks, hookCleaner, tasks, posts, sends>>
  /\ lastOp' = IF Len(messageQueue) = 0 /\ Len(stack) > 1
                THEN Op("exceptionHandler", "loop")
                ELSE Op("step", "")
  /\ UNCHANGED sigVars

\* ================================================================== signals
\* Signal objects and the sender that owns each (Signal.sender).
Signals == {"A", "B", "C"}

sender(signal) == IF signal = "C" THEN "Y" ELSE "X"

Senders == {"X", "Y"}

Slots == {"f", "g"}

\* The thisArg of a connection; NULL stands for undefined.
Contexts == {NULL, "R", "X"}

\* Every object the two WeakMaps may be asked about.
Objects == Senders \cup Slots \cup (Contexts \ {NULL})

Range(q) == {q[k] : k \in 1..Len(q)}

\* thisArg || slot
ReceiverOf(slot, thisArg) == IF thisArg # NULL THEN thisArg ELSE slot

ReceiversArray(object) == <<"receivers", object>>

SendersArray(object) == <<"senders", object>>

isDeadConnection(connection) == connection.signal = NULL

RECURSIVE CleanEach(_, _, _, _)
\* scheduleCleanup called for each array of arrays in turn: the cleaner and
\* the scheduler afterwards.
CleanEach(c, tk, arrays, fn) ==
  IF arrays = <<>> THEN [c |-> c, tasks |-> tk]
  ELSE CleanEach(CleanerClean(c, Head(arrays), FreshTaskIdIn(tk, fn)),
                 CleanerCleanTasks(c, tk, FreshTaskIdIn(tk, fn), fn),
                 Tail(arrays), fn)

scheduleCleanup(arrays) ==
  LET r == CleanEach(connectionCleaner, tasks, arrays, "connectionCleaner")
  IN /\ connectionCleaner' = r.c
     /\ tasks' = r.tasks

\* findConnection compared the context with the receiver (thisArg || slot).
findConnectionByReceiver(connections, signal, slot, context) ==
  LET hits == {k \in 1..Len(connections) :
                 /\ conns[connections[k]].signal = signal
                 /\ conns[connections[k]].slot = slot
                 /\ conns[connections[k]].context = ReceiverOf(slot, context)}
  IN IF hits = {} THEN 0
     ELSE connections[CHOOSE k \in hits : \A j \in hits : k <= j]

\* findConnection taking a cleared connection of the slot and context for a match.
findConnectionCleared(connections, signal, slot, context) ==
  LET hits == {k \in 1..Len(connections) :
                 /\ conns[connections[k]].signal \in {signal, NULL}
                 /\ conns[connections[k]].slot = slot
                 /\ conns[connections[k]].context = context}
  IN IF hits = {} THEN 0
     ELSE connections[CHOOSE k \in hits : \A j \in hits : k <= j]

\* findConnection without the comparison of the context.
findConnectionAnyContext(connections, signal, slot, context) ==
  LET hits == {k \in 1..Len(connections) :
                 /\ conns[connections[k]].signal = signal
                 /\ conns[connections[k]].slot = slot}
  IN IF hits = {} THEN 0
     ELSE connections[CHOOSE k \in hits : \A j \in hits : k <= j]

\* The first connection of the list that matches the tuple, 0 for undefined.
findConnection(connections, signal, slot, context) ==
  LET hits == {k \in 1..Len(connections) :
                 /\ conns[connections[k]].signal = signal
                 /\ conns[connections[k]].slot = slot
                 /\ conns[connections[k]].context = context}
  IN IF hits = {} THEN 0
     ELSE connections[CHOOSE k \in hits : \A j \in hits : k <= j]

\* The connection objects with those of ids cleared (signal = null).
Tombstoned(cs, ids) ==
  [k \in 1..Len(cs) |-> IF k \in ids THEN [cs[k] EXCEPT !.signal = NULL] ELSE cs[k]]

\* The live connections of a list, in list order.
LiveOf(connections) == SelectSeq(connections, LAMBDA c : conns[c].signal # NULL)

\* User code is running: top level, or inside a slot.
SlotCode ==
  IF emitStack = <<>> THEN TRUE ELSE Last(emitStack).phase = "inslot"

Connect(signal, slot, context) ==
  /\ SlotCode
  /\ LET receivers == receiversForSender[sender(signal)]
         receiver == ReceiverOf(slot, context)
         connection == Len(conns) + 1
     IN IF findConnection(receivers, signal, slot, context) # 0
          THEN /\ lastOp' = Op("connect", "false")
               /\ UNCHANGED <<conns, receiversForSender, sendersForReceiver>>
          ELSE /\ Len(conns) < MaxConns
               /\ conns' = Append(conns, [signal |-> signal, slot |-> slot, context |-> context])
               /\ receiversForSender' = [receiversForSender EXCEPT ![sender(signal)] = Append(@, connection)]
               /\ sendersForReceiver' = [sendersForReceiver EXCEPT ![receiver] = Append(@, connection)]
               /\ lastOp' = Op("connect", "true")
  /\ UNCHANGED <<connectionCleaner, tasks, emitStack>>
  /\ UNCHANGED loopVars

Disconnect(signal, slot, context) ==
  /\ SlotCode
  /\ LET receivers == receiversForSender[sender(signal)]
         connection == findConnection(receivers, signal, slot, context)
     IN IF Len(receivers) = 0 \/ connection = 0
          THEN /\ lastOp' = Op("disconnect", "false")
               /\ UNCHANGED <<conns, connectionCleaner, tasks>>
          ELSE /\ conns' = Tombstoned(conns, {connection})
               /\ scheduleCleanup(<<ReceiversArray(sender(signal)),
                                    SendersArray(ReceiverOf(slot, context))>>)
               /\ lastOp' = Op("disconnect", "true")
  /\ UNCHANGED <<receiversForSender, sendersForReceiver, emitStack>>
  /\ UNCHANGED loopVars

\* BetweenCleared without the test of the connection's sender.
BetweenClearedAnySender(s, senders) ==
  {c \in Range(senders) : conns[c].signal # NULL}

\* disconnectBetween: the connections of the receiver's list it clears.
BetweenCleared(s, senders) ==
  {c \in Range(senders) : conns[c].signal # NULL /\ sender(conns[c].signal) = s}

DisconnectBetween(s, receiver) ==
  /\ SlotCode
  /\ LET receivers == receiversForSender[s]
         senders == sendersForReceiver[receiver]
     IN IF Len(receivers) = 0 \/ Len(senders) = 0
          THEN /\ lastOp' = Op("disconnectBetween", "")
               /\ UNCHANGED <<conns, connectionCleaner, tasks>>
          ELSE /\ conns' = Tombstoned(conns, BetweenCleared(s, senders))
               /\ scheduleCleanup(<<ReceiversArray(s), SendersArray(receiver)>>)
               /\ lastOp' = Op("disconnectBetween", "")
  /\ UNCHANGED <<receiversForSender, sendersForReceiver, emitStack>>
  /\ UNCHANGED loopVars

\* SenderCleared stopping after the first live connection of the list.
SenderClearedFirst(receivers) ==
  IF LiveOf(receivers) = <<>> THEN <<>> ELSE <<Head(LiveOf(receivers))>>

\* disconnectSender: the connections of the sender's list it clears, in order.
SenderCleared(receivers) == LiveOf(receivers)

DisconnectSender(s) ==
  /\ SlotCode
  /\ LET receivers == receiversForSender[s]
         live == SenderCleared(receivers)
     IN IF Len(receivers) = 0
          THEN /\ lastOp' = Op("disconnectSender", "")
               /\ UNCHANGED <<conns, connectionCleaner, tasks>>
          ELSE /\ conns' = Tombstoned(conns, Range(live))
               /\ scheduleCleanup(
                    [k \in 1..Len(live) |->
                       SendersArray(ReceiverOf(conns[live[k]].slot, conns[live[k]].context))]
                    \o <<ReceiversArray(s)>>)
               /\ lastOp' = Op("disconnectSender", "")
  /\ UNCHANGED <<receiversForSender, sendersForReceiver, emitStack>>
  /\ UNCHANGED loopVars

\* ReceiverCleared stopping after the first live connection of the list.
ReceiverClearedFirst(senders) ==
  IF LiveOf(senders) = <<>> THEN <<>> ELSE <<Head(LiveOf(senders))>>

\* disconnectReceiver: the connections of the receiver's list it clears, in order.
ReceiverCleared(senders) == LiveOf(senders)

DisconnectReceiver(receiver) ==
  /\ SlotCode
  /\ LET senders == sendersForReceiver[receiver]
         live == ReceiverCleared(senders)
     IN IF Len(senders) = 0
          THEN /\ lastOp' = Op("disconnectReceiver", "")
               /\ UNCHANGED <<conns, connectionCleaner, tasks>>
          ELSE /\ conns' = Tombstoned(conns, Range(live))
               /\ scheduleCleanup(
                    [k \in 1..Len(live) |-> ReceiversArray(sender(conns[live[k]].signal))]
                    \o <<SendersArray(receiver)>>)
               /\ lastOp' = Op("disconnectReceiver", "")
  /\ UNCHANGED <<receiversForSender, sendersForReceiver, emitStack>>
  /\ UNCHANGED loopVars

\* AllCleared for the object as a sender only.
AllClearedAsSender(receivers, senders) == Range(receivers)

\* disconnectAll: the connections it clears, those of both lists of the object.
AllCleared(receivers, senders) == Range(receivers) \cup Range(senders)

DisconnectAll(object) ==
  /\ SlotCode
  /\ LET receivers == receiversForSender[object]
         senders == sendersForReceiver[object]
     IN /\ conns' = Tombstoned(conns, AllCleared(receivers, senders))
        /\ scheduleCleanup(
             (IF Len(receivers) > 0 THEN <<ReceiversArray(object)>> ELSE <<>>)
             \o (IF Len(senders) > 0 THEN <<SendersArray(object)>> ELSE <<>>))
  /\ lastOp' = Op("disconnectAll", "")
  /\ UNCHANGED <<receiversForSender, sendersForReceiver, emitStack>>
  /\ UNCHANGED loopVars

\* The connection objects some list of the two maps still holds.
Referenced(rfs, sfr) ==
  {c \in 1..Len(conns) :
     \E o \in Objects : c \in Range(rfs[o]) \cup Range(sfr[o])}

\* A connection object is known by its identity only.  Objects that no list
\* holds any more are unreachable, and the model drops them from conns and
\* numbers the others anew in their order of creation.
RankIn(kept, c) == Cardinality({k \in kept : k <= c})

Renumbered(kept, q) == [k \in 1..Len(q) |-> RankIn(kept, q[k])]

\* The scheduled compaction of the index lists fires.
ConnectionCleanerTask ==
  /\ emitStack = <<>>
  /\ \E t \in tasks :
       /\ t.fn = "connectionCleaner"
       /\ tasks' = tasks \ {t}
  /\ LET dead == {c \in 1..Len(conns) : isDeadConnection(conns[c])}
         rfs == [o \in Objects |->
                   IF ReceiversArray(o) \in connectionCleaner.dirtySet
                     THEN SelectSeqBy(receiversForSender[o], dead)
                     ELSE receiversForSender[o]]
         sfr == [o \in Objects |->
                   IF SendersArray(o) \in connectionCleaner.dirtySet
                     THEN SelectSeqBy(sendersForReceiver[o], dead)
                     ELSE sendersForReceiver[o]]
         kept == Referenced(rfs, sfr)
     IN /\ receiversForSender' = [o \in Objects |-> Renumbered(kept, rfs[o])]
        /\ sendersForReceiver' = [o \in Objects |-> Renumbered(kept, sfr[o])]
        /\ conns' = [i \in 1..Cardinality(kept) |->
                       conns[CHOOSE c \in kept : RankIn(kept, c) = i]]
  /\ connectionCleaner' = CleanerDump(connectionCleaner)
  /\ lastOp' = Op("step", "")
  /\ UNCHANGED emitStack
  /\ UNCHANGED loopVars

\* ------------------------------------------------------------------ emit
\* EmitFrame taking over the bound of the emit it was called from.
EmitFrameOuterBound(signal, receivers) ==
  [signal |-> signal,
   n |-> IF emitStack = <<>> THEN Len(receivers) ELSE Last(emitStack).n,
   i |-> 1, phase |-> "next", called |-> <<>>,
   snapshot |-> SelectSeq(receivers, LAMBDA c : conns[c].signal = signal),
   threw |-> {}]

\* A running emit: receivers.forEach over the list of the signal's sender.
\* n is the length forEach read before the first callback, i the index (from
\* 1) of the entry to visit next or being invoked.  called, snapshot and threw
\* are history: the connections invoked so far, the connections of the signal
\* that were live in the list when emit began, and those whose slot threw.
EmitFrame(signal, receivers) ==
  [signal |-> signal, n |-> Len(receivers), i |-> 1, phase |-> "next",
   called |-> <<>>,
   snapshot |-> SelectSeq(receivers, LAMBDA c : conns[c].signal = signal),
   threw |-> {}]

\* BoundOf reading the length of the list anew at every index.
BoundOfLive(f) == Len(receiversForSender[sender(f.signal)])

\* The number of indices forEach visits.
BoundOf(f) == f.n

\* Dispatchable deciding by the connections that were live when emit began.
DispatchableAtStart(f, c) == c \in Range(f.snapshot)

\* Dispatchable taking a cleared connection for the connected one of the same
\* signal, slot and context.
DispatchableByTuple(f, c) ==
  \E d \in 1..Len(conns) :
    /\ conns[d].signal = f.signal
    /\ conns[d].slot = conns[c].slot /\ conns[d].context = conns[c].context

\* Dispatchable testing only that the connection is connected.
DispatchableAnySignal(f, c) == conns[c].signal # NULL

\* The test of the forEach callback: connection.signal === signal.
Dispatchable(f, c) == conns[c].signal = f.signal

\* Thrown ending the emission at the slot that threw.
ThrownAborts(stk) == Pop(stk)

\* invokeSlot returns: forEach goes on to the next index.
Returned(stk) == SetTop(stk, [Last(stk) EXCEPT !.i = @ + 1, !.phase = "next"])

\* invokeSlot caught an exception of the slot: forEach goes on likewise.
Thrown(stk) ==
  SetTop(stk, [Last(stk) EXCEPT !.i = @ + 1, !.phase = "next",
                                !.threw = @ \cup {Last(Last(stk).called)}])

Emit(signal) ==
  /\ SlotCode
  /\ LET receivers == receiversForSender[sender(signal)]
     IN IF Len(receivers) = 0
          THEN /\ lastOp' = Op("step", "")
               /\ UNCHANGED emitStack
          ELSE /\ Len(emitStack) < MaxEmitDepth
               /\ emitStack' = Append(emitStack, EmitFrame(signal, receivers))
               /\ lastOp' = Op("step", "")
  /\ UNCHANGED <<conns, receiversForSender, sendersForReceiver, connectionCleaner,
                 tasks>>
  /\ UNCHANGED loopVars

\* One index of the forEach of the emit on top of the stack.
EmitStep ==
  /\ emitStack # <<>> /\ Last(emitStack).phase = "next"
  /\ LET f == Last(emitStack)
         receivers == receiversForSender[sender(f.signal)]
     IN emitStack' =
          IF f.i > BoundOf(f) THEN Pop(emitStack)
          ELSE IF f.i <= Len(receivers) /\ Dispatchable(f, receivers[f.i])
                 THEN SetTop(emitStack, [f EXCEPT !.phase = "inslot",
                                                  !.called = Append(@, receivers[f.i])])
                 ELSE SetTop(emitStack, [f EXCEPT !.i = @ + 1])
  /\ lastOp' = Op("step", "")
  /\ UNCHANGED <<conns, receiversForSender, sendersForReceiver, connectionCleaner,
                 tasks>>
  /\ UNCHANGED loopVars

SlotReturn ==
  /\ emitStack # <<>> /\ Last(emitStack).phase = "inslot"
  /\ emitStack' = Returned(emitStack)
  /\ lastOp' = Op("step", "")
  /\ UNCHANGED <<conns, receiversForSender, sendersForReceiver, connectionCleaner,
                 tasks>>
  /\ UNCHANGED loopVars

SlotThrow ==
  /\ emitStack # <<>> /\ Last(emitStack).phase = "inslot"
  /\ emitStack' = Thrown(emitStack)
  /\ lastOp' = Op("exceptionHandler", "signal")
  /\ UNCHANGED <<conns, receiversForSender, sendersForReceiver, connectionCleaner, tasks>>
  /\ UNCHANGED loopVars

InitSignal ==
  /\ conns = <<>>
  /\ receiversForSender = [o \in Objects |-> <<>>]
  /\ sendersForReceiver = [o \in Objects |-> <<>>]
  /\ connectionCleaner = NewCleaner
  /\ emitStack = <<>>

\* The connections the slots and the top level ask for: three on signal A, so
\* that an emission has a first, a middle and a last slot, and one on signal B
\* of the same sender, which shares the receiver list.
Wiring == {<<"A", "f", NULL>>, <<"A", "g", NULL>>, <<"A", "f", "R">>, <<"B", "g", NULL>>}

WiredSenders == {sender(t[1]) : t \in Wiring}

WiredReceivers == {ReceiverOf(t[2], t[3]) : t \in Wiring}

EmittedSignals == {"A"}

NextSignal ==
  \/ \E t \in Wiring : Connect(t[1], t[2], t[3])
  \/ \E t \in Wiring : Disconnect(t[1], t[2], t[3])
  \/ \E x \in WiredSenders, r \in WiredReceivers : DisconnectBetween(x, r)
  \/ \E x \in WiredSenders : DisconnectSender(x)
  \/ \E r \in WiredReceivers : DisconnectReceiver(r)
  \/ \E o \in WiredSenders \cup WiredReceivers : DisconnectAll(o)
  \/ \E g \in EmittedSignals : emitStack = <<>> /\ Emit(g)
  \/ EmitStep
  \/ SlotReturn
  \/ SlotThrow
  \/ ConnectionCleanerTask

\* ------------------------------------------------------------------ specification
InitLoop ==
  /\ messageQueue = <<>>
  /\ loopTaskID = 0
  /\ flushGuard = FALSE
  /\ messageHooks = [h \in Handlers |-> <<>>]
  /\ hookCleaner = NewCleaner
  /\ stack = <<>>
  /\ delivered = <<>>
  /\ popFault = FALSE
  /\ posts = 0
  /\ sends = 0

Init ==
  /\ InitLoop
  /\ InitSignal
  /\ tasks = {}
  /\ lastOp = Op("init", "")

\* The queue and the loop, with handlers as the only user code.
NextLoop ==
  \/ \E h \in Handlers, m \in Messages : PostMessage(h, m)
  \/ \E h \in Handlers : ClearData(h)
  \/ Flush
  \/ RunLoopTask
  \/ DrainStep
  \/ HandlerReturn

SpecLoop == Init /\ [][NextLoop]_vars

\* The loop under a scheduler that fires every task it was handed, with a
\* loop that goes on to its next iteration and handlers that return.
LiveMessages == {PlainMsg("a"), ConflatableMessage("a")}

NextLive ==
  \/ \E h \in Handlers, m \in LiveMessages : PostMessage(h, m)
  \/ \E h \in Handlers : ClearData(h)
  \/ Flush
  \/ RunLoopTask
  \/ DrainStep
  \/ HandlerReturn

LiveLoop ==
  /\ Init /\ [][NextLive]_vars
  /\ WF_vars(RunLoopTask)
  /\ WF_vars(DrainStep)
  /\ WF_vars(HandlerReturn)

\* The loop with hooks on one handler; every message is a plain Message.
HookHandlers == {"h1"}

HookMessages == {PlainMsg("a")}

NextHooks ==
  \/ \E h \in Handlers, m \in HookMessages : posts < MaxHookPosts /\ PostMessage(h, m)
  \/ \E h \in HookHandlers, k \in Hooks : InstallMessageHook(h, k)
  \/ \E h \in HookHandlers, k \in Hooks : RemoveMessageHook(h, k)
  \/ \E h \in HookHandlers : ClearData(h)
  \/ Flush
  \/ RunLoopTask
  \/ HookCleanerTask
  \/ DrainStep
  \/ ChainStep
  \/ \E r \in BOOLEAN : HookReturn(r)
  \/ HandlerReturn

SpecHooks == Init /\ [][NextHooks]_vars

\* The loop with hooks that are installed and removed by any user code, hooks
\* included; removeMessageHook is the only operation that clears a hook.
NextRemoval ==
  \/ \E h \in Handlers, m \in HookMessages : posts < MaxHookPosts /\ PostMessage(h, m)
  \/ \E h \in HookHandlers, k \in Hooks : InstallMessageHook(h, k)
  \/ \E h \in HookHandlers, k \in Hooks : RemoveMessageHook(h, k)
  \/ Flush
  \/ RunLoopTask
  \/ HookCleanerTask
  \/ DrainStep
  \/ ChainStep
  \/ \E r \in BOOLEAN : HookReturn(r)
  \/ HandlerReturn

SpecRemoval == Init /\ [][NextRemoval]_vars

\* The loop with one kind of message, a ConflatableMessage of one type, so
\* that any two messages posted to a handler are equal.
EqualMessage == ConflatableMessage("a")

NextEqual ==
  \/ \E h \in Handlers : PostMessage(h, EqualMessage)
  \/ Flush
  \/ RunLoopTask
  \/ DrainStep
  \/ HandlerReturn

SpecEqual == Init /\ [][NextEqual]_vars

SpecSignal == Init /\ [][NextSignal]_vars

\* Dispatch with hooks and with user code that throws: messages are sent to
\* and posted for h1 at any time, also by hooks and handlers; h1's hooks are
\* installed and removed between dispatches.
NextDispatch ==
  \/ \E h \in HookHandlers, m \in HookMessages : SendMessage(h, m)
  \/ \E h \in HookHandlers, m \in HookMessages :
       posts < MaxHookPosts /\ PostMessage(h, m)
  \/ \E h \in HookHandlers, k \in Hooks : stack = <<>> /\ InstallMessageHook(h, k)
  \/ \E h \in HookHandlers, k \in Hooks : stack = <<>> /\ RemoveMessageHook(h, k)
  \/ Flush
  \/ RunLoopTask
  \/ HookCleanerTask
  \/ DrainStep
  \/ ChainStep
  \/ \E r \in BOOLEAN : HookReturn(r)
  \/ HookThrow
  \/ HandlerReturn
  \/ HandlerThrow

SpecDispatch == Init /\ [][NextDispatch]_vars

\* User code that throws in either component.  The two components share the
\* scheduler and nothing else; a run works with the message loop as in
\* NextDispatch or with signals as in NextSignal.
NextCaught ==
  \/ InitSignal /\ NextDispatch
  \/ InitLoop /\ NextSignal

SpecCaught == Init /\ [][NextCaught]_vars

\* The registry with two senders: X owns the signals A and B, Y owns C; the
\* receivers are the slot f, the context R and X itself, which is the context
\* of a connection to Y's signal.
RegistryWiring ==
  {<<"A", "f", NULL>>, <<"B", "f", NULL>>, <<"C", "f", NULL>>,
   <<"A", "g", "R">>, <<"C", "g", "X">>}

RegistrySenders == {sender(t[1]) : t \in RegistryWiring}

RegistryReceivers == {ReceiverOf(t[2], t[3]) : t \in RegistryWiring}

RegistrySignals == {"A", "C"}

NextRegistry ==
  \/ \E t \in RegistryWiring : Connect(t[1], t[2], t[3])
  \/ \E t \in RegistryWiring : Disconnect(t[1], t[2], t[3])
  \/ \E x \in RegistrySenders, r \in RegistryReceivers : DisconnectBetween(x, r)
  \/ \E x \in RegistrySenders : DisconnectSender(x)
  \/ \E r \in RegistryReceivers : DisconnectReceiver(r)
  \/ \E o \in RegistrySenders \cup RegistryReceivers : DisconnectAll(o)
  \/ \E g \in RegistrySignals : emitStack = <<>> /\ Emit(g)
  \/ EmitStep
  \/ SlotReturn
  \/ ConnectionCleanerTask

SpecRegistry == Init /\ [][NextRegistry]_vars

\* The operations that clear entries, in either component: a run works with
\* the message loop as in NextHooks or with the registry as in NextSignal.
NextTombstones ==
  \/ InitSignal /\ NextHooks
  \/ InitLoop /\ NextSignal

SpecTombstones == Init /\ [][NextTombstones]_vars

\* One sender with two signals, as the TestObject of the signaling tests: the
\* registry starts with up to MaxWired connections that connect calls made
\* beforehand, in any order, and either signal is emitted from the top level.
SharedWiring ==
  {<<"A", "f", NULL>>, <<"A", "g", NULL>>, <<"B", "f", NULL>>, <<"B", "g", NULL>>}

\* The orders in which distinct tuples of SharedWiring were connected.
WiredLists ==
  UNION {{w \in [1..n -> SharedWiring] : \A a, b \in 1..n : a # b => w[a] # w[b]} :
           n \in 0..MaxWired}

\* The positions of w whose connection has receiver object o, in order.
WiredTo(w, o) ==
  SelectSeq([k \in 1..Len(w) |-> k], LAMBDA k : ReceiverOf(w[k][2], w[k][3]) = o)

\* The registry after connect was called for each tuple of w in turn.
WiredBy(w) ==
  /\ conns = [k \in 1..Len(w) |->
                [signal |-> w[k][1], slot |-> w[k][2], context |-> w[k][3]]]
  /\ receiversForSender =
       [o \in Objects |-> IF o = "X" THEN [k \in 1..Len(w) |-> k] ELSE <<>>]
  /\ sendersForReceiver = [o \in Objects |-> WiredTo(w, o)]

InitShared ==
  /\ InitLoop
  /\ \E w \in WiredLists : WiredBy(w)
  /\ connectionCleaner = NewCleaner
  /\ emitStack = <<>>
  /\ tasks = {}
  /\ lastOp = Op("init", "")

NextShared ==
  \/ \E t \in SharedWiring : Connect(t[1], t[2], t[3])
  \/ \E t \in SharedWiring : Disconnect(t[1], t[2], t[3])
  \/ \E g \in {"A", "B"} : emitStack = <<>> /\ Emit(g)
  \/ EmitStep
  \/ SlotReturn
  \/ ConnectionCleanerTask

SpecShared == InitShared /\ [][NextShared]_vars

\* One signal whose slots connect, disconnect and emit the signal again, to
\* the depth of MaxEmitDepth emit calls on the stack.
NestedWiring == {<<"A", "f", NULL>>, <<"A", "g", NULL>>}

NextNested ==
  \/ \E t \in NestedWiring : Connect(t[1], t[2], t[3])
  \/ \E t \in NestedWiring : Disconnect(t[1], t[2], t[3])
  \/ Emit("A")
  \/ EmitStep
  \/ SlotReturn
  \/ ConnectionCleanerTask

SpecNested == Init /\ [][NextNested]_vars

\* A ScheduledCleaner called directly, as the tests of schedule.ts call it.
\* The cleaner is the one MessageLoop creates with isNullHook as shouldRemove;
\* its arrays are the two lists of messageHooks, which start with any entries.
CleanerArrays ==
  UNION {[1..n -> Hooks \cup {NULL}] : n \in 0..MaxItems}

InitCleaner ==
  /\ messageQueue = <<>>
  /\ loopTaskID = 0
  /\ flushGuard = FALSE
  /\ messageHooks \in [Handlers -> CleanerArrays]
  /\ hookCleaner = NewCleaner
  /\ stack = <<>>
  /\ delivered = <<>>
  /\ popFault = FALSE
  /\ posts = 0
  /\ sends = 0
  /\ InitSignal
  /\ tasks = {}
  /\ lastOp = Op("init", "")

\* dump(): the arrays after the compaction pass of cleaner c.
Dumped(arrays, c) ==
  [a \in DOMAIN arrays |->
     IF a \in c.dirtySet
       THEN SelectSeqBy(arrays[a], {x \in {NULL} : isNullHook(x)})
       ELSE arrays[a]]

\* cleaner.clean(items)
CleanCall(items) ==
  /\ hookCleaner' = CleanerClean(hookCleaner, items, FreshTaskId("hookCleaner"))
  /\ tasks' = CleanerCleanTasks(hookCleaner, tasks, FreshTaskId("hookCleaner"), "hookCleaner")
  /\ lastOp' = Op("clean", "")
  /\ UNCHANGED <<messageQueue, loopTaskID, flushGuard, messageHooks, stack, delivered,
                 popFault, posts, sends>>
  /\ UNCHANGED sigVars

\* cleaner.cancel()
CancelCall ==
  /\ hookCleaner' = CleanerCancel(hookCleaner)
  /\ tasks' = CleanerCancelTasks(hookCleaner, tasks)
  /\ lastOp' = Op("cancel", "")
  /\ UNCHANGED <<messageQueue, loopTaskID, flushGuard, messageHooks, stack, delivered,
                 popFault, posts, sends>>
  /\ UNCHANGED sigVars

\* cleaner.flush()
FlushCall ==
  /\ IF CleanerFlushBails(hookCleaner)
       THEN /\ lastOp' = Op("cleanerFlush", "bail")
            /\ UNCHANGED <<hookCleaner, tasks, messageHooks>>
       ELSE /\ lastOp' = Op("cleanerFlush", "dump")
            /\ tasks' = CleanerCancelTasks(hookCleaner, tasks)
            /\ messageHooks' = Dumped(messageHooks, hookCleaner)
            /\ hookCleaner' = CleanerDump(CleanerCancel(hookCleaner))
  /\ UNCHANGED <<messageQueue, loopTaskID, flushGuard, stack, delivered,
                 popFault, posts, sends>>
  /\ UNCHANGED sigVars

NextCleaner ==
  \/ \E a \in Handlers : CleanCall(a)
  \/ CancelCall
  \/ FlushCall
  \/ HookCleanerTask

SpecCleaner == InitCleaner /\ [][NextCleaner]_vars

\* ------------------------------------------------------------------ properties
DrainFrames == {d \in 1..Len(stack) : stack[d].kind = "drain"}

\* The queue entries dispatched by frames above frame d of the stack.
DispatchedAbove(d) ==
  {stack[k].entry : k \in {j \in (d + 1)..Len(stack) : stack[j].kind = "send" /\ stack[j].entry # 0}}

\* Entry e is in the queue, ahead of the sentinel s.
Ahead(e, s) ==
  \E k, l \in 1..Len(messageQueue) :
    k < l /\ messageQueue[k].id = e /\ messageQueue[l].id = s

DrainInProgress == DrainFrames # {}

InFlushDrain == \E d \in DrainFrames : stack[d].byFlush

FlushLeaves == UNCHANGED <<messageQueue, loopTaskID, flushGuard, tasks, stack, delivered>>

\* C1: while a drain runs, whether the loop task or flush() started it, every
\* entry that is dispatched was in the queue, live, when that drain started; an
\* entry appended during the drain is not dispatched before the drain ends.
C1_DrainDeliversOnlyItsStartEntries ==
  \A d \in DrainFrames : DispatchedAbove(d) \subseteq stack[d].start

\* C2: processMessage is invoked in the global post order.  The delivery log
\* is strictly increasing in the entries' post order, no live entry waits in
\* the queue behind a later one or after a later one was delivered.
C2_GlobalPostOrder ==
  /\ \A i, j \in 1..Len(delivered) :
       i < j => delivered[i].entry < delivered[j].entry
  /\ \A i \in 1..Len(delivered), k \in 1..Len(messageQueue) :
       messageQueue[k].id > 0 => delivered[i].entry < messageQueue[k].id
  /\ \A k, l \in 1..Len(messageQueue) :
       (k < l /\ messageQueue[k].id > 0 /\ messageQueue[l].id > 0)
         => messageQueue[k].id < messageQueue[l].id

\* Three messages posted to h2, h1, h2, each appended to the queue, were
\* delivered by one drain.
C2_Witness ==
  /\ Len(delivered) = 3
  /\ delivered[1].handler = "h2" /\ delivered[2].handler = "h1" /\ delivered[3].handler = "h2"
  /\ \A i \in 1..3 : delivered[i].entry = i
  /\ stack # <<>> /\ stack[1].kind = "drain" /\ stack[1].start = {1, 2, 3}

\* C7: flush() called from a hook or a handler that runs inside a drain that
\* flush() started changes nothing; that drain dispatches only entries that
\* were queued when it started, each once, and every entry it has not taken
\* from the queue is still ahead of its sentinel.
C7_NestedFlushIsNoOp ==
  /\ [][(Flush /\ InFlushDrain) => FlushLeaves]_vars
  /\ [](\A d \in DrainFrames : stack[d].byFlush =>
          /\ DispatchedAbove(d) \subseteq stack[d].start
          /\ \A e \in stack[d].start \ stack[d].done :
               Ahead(e, stack[d].sentinel))
  /\ [](\A i, j \in 1..Len(delivered) :
          (i # j /\ delivered[i].entry # 0) => delivered[i].entry # delivered[j].entry)

\* A hook running inside a flush()-started drain has posted a message (a run
\* is scheduled) and then called flush(), which did nothing.
C7_Witness ==
  /\ lastOp = Op("flush", "noop")
  /\ stack # <<>> /\ Top.kind = "send" /\ Top.phase = "inhook"
  /\ InFlushDrain
  /\ loopTaskID # 0
  /\ Last(messageQueue).id > 0

\* C8: flush() changes nothing whenever a drain is in progress, whoever
\* started it, and whenever no loop run is scheduled.
C8_FlushNoOpDuringAnyDrain ==
  [][(Flush /\ (DrainInProgress \/ loopTaskID = 0)) => FlushLeaves]_vars

\* The queue holds a live conflatable entry of handler h and of msg's type
\* whose conflate() returns true.
HasAccepting(h, m) ==
  \E k \in 1..Len(messageQueue) :
    /\ messageQueue[k].handler = h
    /\ messageQueue[k].msg.isConflatable
    /\ messageQueue[k].msg.type = m.type
    /\ messageQueue[k].msg.conflate

AppendedEntry(h, m) ==
  messageQueue' = Append(messageQueue, [id |-> posts + 1, handler |-> h, msg |-> m])

\* C9: a conflatable message posted while the queue holds an accepting entry
\* of the same handler and type adds no entry, so the queue never holds a
\* second conflatable entry behind an accepting one of the same handler and
\* type; a non-conflatable message is always appended.
C9_Conflation ==
  /\ [][\A h \in Handlers, m \in Messages :
          (m.isConflatable /\ HasAccepting(h, m) /\ PostMessage(h, m))
            => (messageQueue' = messageQueue /\ posts' = posts)]_vars
  /\ [][\A h \in Handlers, m \in Messages :
          (~m.isConflatable /\ PostMessage(h, m)) => AppendedEntry(h, m)]_vars
  /\ [](\A k, l \in 1..Len(messageQueue) :
          (/\ k < l
           /\ messageQueue[k].handler # NULL
           /\ messageQueue[k].msg.isConflatable /\ messageQueue[k].msg.conflate)
          => ~(/\ messageQueue[l].handler = messageQueue[k].handler
               /\ messageQueue[l].msg.type = messageQueue[k].msg.type
               /\ messageQueue[l].msg.isConflatable))

\* A conflatable message was posted again and dropped: one entry is queued.
C9_Witness ==
  /\ lastOp = Op("postMessage", "conflated")
  /\ Len(messageQueue) = 1 /\ posts = 1
  /\ messageQueue[1].msg = ConflatableMessage("a")

\* No entry of the queue is of handler h, live, of msg's type and conflatable.
NoCandidate(h, m) ==
  \A k \in 1..Len(messageQueue) :
    \/ messageQueue[k].handler # h
    \/ messageQueue[k].msg = NullMsg
    \/ messageQueue[k].msg.type # m.type
    \/ ~messageQueue[k].msg.isConflatable

\* C10: a conflatable message is appended as a fresh entry when every queued
\* entry is of another handler, of another type, cleared or not conflatable.
C10_NoForeignConflation ==
  [][\A h \in Handlers, m \in Messages :
       (m.isConflatable /\ NoCandidate(h, m) /\ PostMessage(h, m))
         => AppendedEntry(h, m)]_vars

\* A conflatable message for h1 was appended behind a conflatable entry of the
\* same type for h2 and a plain entry of the same type for h1.
C10_Witness ==
  /\ lastOp = Op("postMessage", "appended")
  /\ Len(messageQueue) = 3
  /\ messageQueue[1].handler = "h2" /\ messageQueue[1].msg = ConflatableMessage("a")
  /\ messageQueue[2].handler = "h1" /\ messageQueue[2].msg = PlainMsg("a")
  /\ messageQueue[3].handler = "h1" /\ messageQueue[3].msg = ConflatableMessage("a")

\* ------------------------------------------------------------------ emission
\* The receiver list an emit frame iterates.
ListOf(f) == receiversForSender[sender(f.signal)]

\* The index of connection c in the sequence q, 0 when absent.
PosIn(q, c) ==
  IF c \in Range(q) THEN CHOOSE k \in 1..Len(q) : q[k] = c ELSE 0

\* The connections of frame f's signal that forEach has passed or will still
\* reach, and that are live now.
LiveWithin(f, upto) ==
  {c \in Range(ListOf(f)) :
     /\ PosIn(ListOf(f), c) <= upto
     /\ conns[c].signal = f.signal}

\* called follows the order of the list as it was when emit began, without
\* repetition.
InOrderOnce(f) ==
  \A a, b \in 1..Len(f.called) :
    a < b => /\ PosIn(f.snapshot, f.called[a]) > 0
             /\ PosIn(f.snapshot, f.called[a]) < PosIn(f.snapshot, f.called[b])

\* An emit call returns.
EmitReturns == emitStack # <<>> /\ emitStack' = Pop(emitStack)

\* C3: emit invokes the slots connected to the signal each exactly once, in
\* connection order: what it has invoked follows the order of the list, every
\* connection it has passed that is still connected has been invoked, and it
\* returns only when that holds for the whole list.  A slot that throws has
\* its exception passed to the Signal exception handler, and the emission
\* goes on with the next connection.
C3_EmitInConnectionOrder ==
  /\ [](\A k \in 1..Len(emitStack) :
          LET f == emitStack[k]
              passed == IF f.phase = "inslot" THEN f.i ELSE f.i - 1
          IN /\ InOrderOnce(f)
             /\ LiveWithin(f, IF passed < f.n THEN passed ELSE f.n) \subseteq Range(f.called))
  /\ [][EmitReturns => LiveWithin(Last(emitStack), Last(emitStack).n)
                         \subseteq Range(Last(emitStack).called)]_vars
  /\ [][SlotThrow => /\ lastOp' = Op("exceptionHandler", "signal")
                     /\ Len(emitStack') = Len(emitStack)
                     /\ Last(emitStack').i = Last(emitStack).i + 1]_vars

\* Several slots were connected to the signal, the emission has invoked all
\* of them in order, and the first of them threw.
C3_Witness ==
  /\ emitStack # <<>>
  /\ LET f == Last(emitStack)
     IN /\ f.i > f.n
        /\ Len(f.snapshot) >= 2
        /\ f.called = f.snapshot
        /\ f.called[1] \in f.threw

\* C4: an emit call invokes only connections that were in the list when it
\* began, so a connection made by a slot during the emission is not invoked
\* by it; an emit call that begins later finds it within its bounds.
C4_NoDispatchOfNewConnections ==
  /\ [](\A k \in 1..Len(emitStack) :
          Range(emitStack[k].called) \subseteq Range(emitStack[k].snapshot))
  /\ [][(Len(emitStack') > Len(emitStack)) =>
          LET f == Last(emitStack')
          IN /\ f.n = Len(ListOf(f))
             /\ LiveWithin(f, f.n) = Range(f.snapshot)]_vars

\* An emission is over; a slot connected a new slot to the signal during it,
\* which is live at the end of the list and was not invoked.
C4_Witness ==
  /\ emitStack # <<>>
  /\ LET f == Last(emitStack)
     IN /\ f.i > f.n
        /\ f.called # <<>>
        /\ \E c \in Range(ListOf(f)) :
             /\ PosIn(ListOf(f), c) > f.n
             /\ conns[c].signal = f.signal
             /\ c \notin Range(f.called)

\* The connection the step invokes, 0 when the step invokes none.
Invoked ==
  IF /\ emitStack # <<>> /\ Len(emitStack') = Len(emitStack)
     /\ Len(Last(emitStack').called) = Len(Last(emitStack).called) + 1
    THEN Last(Last(emitStack').called) ELSE 0

\* C5: emit invokes a connection only if it is connected at that moment, so
\* a connection that a slot invoked earlier in the emission has disconnected,
\* by whichever of the disconnect functions, is not invoked.
C5_NoDispatchOfDisconnected ==
  [][Invoked # 0 => conns[Invoked].signal = Last(emitStack).signal]_vars

\* The emission has passed a connection that was connected when emit began,
\* that a slot invoked before it disconnected, and that was not invoked.
C5_Witness ==
  /\ emitStack # <<>>
  /\ LET f == Last(emitStack)
     IN \E c \in Range(f.snapshot) :
          /\ f.called # <<>>
          /\ PosIn(ListOf(f), c) < f.i
          /\ PosIn(ListOf(f), Last(f.called)) < PosIn(ListOf(f), c)
          /\ conns[c].signal = NULL
          /\ c \notin Range(f.called)

\* A live connection with the tuple exists.
Connected(signal, slot, context) ==
  \E c \in 1..Len(conns) :
    conns[c] = [signal |-> signal, slot |-> slot, context |-> context]

\* C6: connect with the tuple of a live connection returns false and leaves
\* both index lists as they were; no two live connections share a tuple, and
\* one emit call invokes no slot with the same context twice.
C6_DuplicateConnectRefused ==
  /\ [][\A t \in Wiring :
          (Connect(t[1], t[2], t[3]) /\ Connected(t[1], t[2], t[3])) =>
             /\ lastOp' = Op("connect", "false")
             /\ UNCHANGED <<conns, receiversForSender, sendersForReceiver>>]_vars
  /\ [](\A a, b \in 1..Len(conns) :
          (conns[a].signal # NULL /\ conns[a] = conns[b]) => a = b)
  /\ [](\A k \in 1..Len(emitStack) :
          \A a, b \in 1..Len(emitStack[k].called) :
            LET ca == conns[emitStack[k].called[a]]
                cb == conns[emitStack[k].called[b]]
            IN (ca.signal # NULL /\ ca = cb) => a = b)

\* A slot of a running emission has connected itself again and was refused.
C6_Witness ==
  /\ lastOp = Op("connect", "false")
  /\ emitStack # <<>>
  /\ Last(emitStack).phase = "inslot"
  /\ Connected(Last(emitStack).signal,
               conns[Last(Last(emitStack).called)].slot,
               conns[Last(Last(emitStack).called)].context)

\* ------------------------------------------------------------------ hook chain
SendFrames == {d \in 1..Len(stack) : stack[d].kind = "send"}

\* q is the list hooks read from its newest entry to its oldest.
NewestFirst(q, hooks) ==
  /\ Len(q) = Len(hooks)
  /\ \A k \in 1..Len(q) : q[k] = hooks[Len(hooks) - k + 1]

\* A sendMessage call, direct or made by a drain, begins with this step.
SendBegins ==
  /\ Len(stack') = Len(stack) + 1
  /\ Last(stack').kind = "send"

\* The step invokes processMessage.
HandlerInvoked == delivered' # delivered

\* C11: dispatch consults the hooks of the handler from the newest to the
\* oldest, one after the other; a hook that returns false ends the dispatch
\* without another hook and without processMessage; processMessage is invoked
\* exactly when the chain has been gone through to its end.
C11_HookChainNewestFirst ==
  /\ [][SendBegins =>
          NewestFirst(Last(stack').hooks, messageHooks[Last(stack').handler])]_vars
  /\ [](\A d \in SendFrames :
          LET f == stack[d]
          IN /\ f.phase = "inhook" => (f.i <= Len(f.hooks) /\ f.hooks[f.i] # NULL)
             /\ f.phase = "inhandler" => f.i > Len(f.hooks))
  /\ [][\A d \in SendFrames :
          (d <= Len(stack') /\ stack'[d].kind = "send" /\ d < Len(stack))
             => stack'[d] = stack[d]]_vars
  /\ [][(stack # <<>> /\ Top.kind = "send" /\ Len(stack') = Len(stack))
          => Last(stack').i \in {Top.i, Top.i + 1}]_vars
  /\ [][lastOp' = Op("hook", "false")
          => (stack' = Pop(stack) /\ ~HandlerInvoked)]_vars
  /\ [][HandlerInvoked =>
          /\ stack' # <<>> /\ Last(stack').kind = "send"
          /\ Last(stack').phase = "inhandler"
          /\ delivered' = Append(delivered, [entry |-> Last(stack').entry,
                                             handler |-> Last(stack').handler])]_vars
  /\ [][(stack # <<>> /\ Top.kind = "send" /\ Top.phase = "next"
         /\ Top.i > Len(Top.hooks) /\ stack' # stack) => HandlerInvoked]_vars

\* A message was sent to h1, which has the hooks k1 and k2; a hook returned
\* false, sendMessage returned and processMessage was not invoked.
C11_Witness ==
  /\ lastOp = Op("hook", "false")
  /\ messageHooks["h1"] = <<"k1", "k2">>
  /\ sends = 1 /\ posts = 0
  /\ stack = <<>>
  /\ delivered = <<>>

\* The step is a clearData call.
ClearDataCalled == lastOp' = Op("clearData", "cleared")

\* The step starts the dispatch of a queue entry.
DispatchBegins == SendBegins /\ Last(stack').entry > 0

\* The step invokes a hook.
HookInvoked ==
  /\ stack' # <<>> /\ Last(stack').kind = "send" /\ Last(stack').phase = "inhook"
  /\ stack' # stack

\* C12: clearData(h) invokes no hook and no handler, and clears every queued
\* entry of h and every hook of h while the entries of the other handlers keep
\* their place; a cleared entry stays cleared, and only an entry that is not
\* cleared is ever dispatched, so that what was queued for h is shown to no hook
\* and to no handler; a cleared hook stays cleared, and a dispatch consults
\* only hooks that are in the handler's list when it begins.
C12_ClearDataDropsQueuedAndHooks ==
  /\ [][\A h \in HookHandlers :
          (ClearDataCalled /\ ClearData(h)) =>
             /\ stack' = stack /\ delivered' = delivered
             /\ ~HandlerInvoked /\ ~HookInvoked
             /\ Len(messageQueue') = Len(messageQueue)
             /\ \A k \in 1..Len(messageQueue) :
                  IF messageQueue[k].handler = h
                    THEN messageQueue'[k].handler = NULL /\ messageQueue'[k].msg = NullMsg
                    ELSE messageQueue'[k] = messageQueue[k]
             /\ \A i \in 1..Len(messageHooks'[h]) : messageHooks'[h][i] = NULL]_vars
  /\ [][\A k \in 1..Len(messageQueue), l \in 1..Len(messageQueue') :
          (messageQueue[k].id = messageQueue'[l].id /\ messageQueue[k].id > 0
           /\ messageQueue[k].handler = NULL)
             => (messageQueue'[l].handler = NULL /\ messageQueue'[l].msg = NullMsg)]_vars
  /\ [][DispatchBegins =>
          /\ messageQueue # <<>>
          /\ Head(messageQueue).id = Last(stack').entry
          /\ Head(messageQueue).handler = Last(stack').handler
          /\ Head(messageQueue).msg = Last(stack').msg
          /\ Last(stack').handler # NULL /\ Last(stack').msg # NullMsg
          /\ \A k \in 1..Len(messageQueue') :
               messageQueue'[k].id # Last(stack').entry]_vars
  /\ [](\A d \in SendFrames : \A k \in 1..Len(messageQueue) :
          stack[d].entry > 0 => messageQueue[k].id # stack[d].entry)
  /\ [][\A h \in Handlers :
          Len(messageHooks'[h]) = Len(messageHooks[h]) =>
             \A i \in 1..Len(messageHooks[h]) :
                messageHooks[h][i] = NULL => messageHooks'[h][i] = NULL]_vars
  /\ [][SendBegins =>
          \A i \in 1..Len(Last(stack').hooks) :
             Last(stack').hooks[i] # NULL =>
                \E j \in 1..Len(messageHooks[Last(stack').handler]) :
                   messageHooks[Last(stack').handler][j] = Last(stack').hooks[i]]_vars
  /\ [][HookInvoked => Last(stack').hooks[Last(stack').i] # NULL]_vars

\* clearData(h1) was called with a message queued for h1 ahead of one for h2
\* and two hooks installed on h1: the entry of h1 is cleared, the entry of h2
\* is as it was posted, and both hooks of h1 are cleared.
C12_Witness ==
  /\ lastOp = Op("clearData", "cleared")
  /\ delivered = <<>>
  /\ messageHooks["h1"] = <<NULL, NULL>>
  /\ \E k, l \in 1..Len(messageQueue) :
       /\ k < l
       /\ messageQueue[k].id > 0 /\ messageQueue[k].handler = NULL
       /\ messageQueue[l].handler = "h2"

\* The frames of stk below its top one.
Callers(stk) == SubSeq(stk, 1, Len(stk) - 1)

\* The step is one in which the loop's, or Signal's, exception handler is called.
LoopHandlerCalled == lastOp' = Op("exceptionHandler", "loop")

SignalHandlerCalled == lastOp' = Op("exceptionHandler", "signal")

\* C13: when a hook, a handler or a slot throws, the exception handler of its
\* component is called in that step and the calls that were running go on as
\* after a return: the callers of the sendMessage or emit concerned are as they
\* were, a drain underneath keeps its queue and its sentinel, the hook chain
\* and the forEach of emit go on with the next index.  The loop's handler is
\* called for nothing but a throw in a hook or a handler (or the loop's own
\* fault inside one), Signal's for nothing but a throw in a slot.
C13_ExceptionsAreCaughtAtDispatch ==
  /\ [][(LoopHandlerCalled /\ (HookThrow \/ HandlerThrow)) =>
          /\ stack # <<>>
          /\ Callers(stack') = Callers(stack) \/ stack' = Callers(stack)
          /\ Top.phase = "inhook" =>
               /\ Len(stack') = Len(stack)
               /\ Last(stack') = [Top EXCEPT !.i = @ + 1, !.phase = "next"]
          /\ Top.phase = "inhandler" => stack' = Callers(stack)
          /\ messageQueue' = messageQueue /\ delivered' = delivered
          /\ flushGuard' = flushGuard /\ loopTaskID' = loopTaskID
          /\ popFault' = popFault]_vars
  /\ [][(SignalHandlerCalled /\ SlotThrow) =>
          /\ emitStack # <<>>
          /\ Len(emitStack') = Len(emitStack)
          /\ Callers(emitStack') = Callers(emitStack)
          /\ Last(emitStack').i = Last(emitStack).i + 1
          /\ Last(emitStack').phase = "next"
          /\ Last(emitStack').called = Last(emitStack).called
          /\ receiversForSender' = receiversForSender
          /\ conns' = conns]_vars
  /\ [][(stack # <<>> /\ Top.kind = "send" /\ Top.phase \in {"inhook", "inhandler"}
         /\ Len(stack') < Len(stack))
          => stack' = Callers(stack)]_vars
  /\ [][LoopHandlerCalled =>
          /\ stack # <<>>
          /\ \/ Top.kind = "send" /\ Top.phase \in {"inhook", "inhandler"}
             \/ Top.kind = "drain" /\ messageQueue = <<>> /\ Len(stack) > 1]_vars
  /\ [][SignalHandlerCalled =>
          (emitStack # <<>> /\ Last(emitStack).phase = "inslot")]_vars

\* h1.processMessage threw while a scheduled drain was dispatching the first
\* of two posted messages: the loop's exception handler was called and the
\* drain is running with the second message still queued.
C13_Witness ==
  /\ lastOp = Op("exceptionHandler", "loop")
  /\ ~popFault
  /\ stack # <<>> /\ Top.kind = "drain" /\ ~Top.byFlush
  /\ delivered = <<[entry |-> 1, handler |-> "h1"]>>
  /\ \E k \in 1..Len(messageQueue) :
       messageQueue[k].id = 2 /\ messageQueue[k].handler = "h1"

\* The step is one in which a sendMessage call returns.
SendReturns ==
  /\ stack # <<>> /\ Top.kind = "send"
  /\ stack' = Callers(stack)

\* C14: a hook that throws leaves the dispatch where a hook that returns true
\* leaves it: the chain goes on with the next older hook of the same copy and
\* nothing else changes; a sendMessage call returns only after a hook returned
\* false or after processMessage was invoked, so never because a hook threw.
C14_ThrowingHookPasses ==
  /\ [][(LoopHandlerCalled /\ HookThrow) =>
          /\ stack' = Passed(stack)
          /\ Last(stack').hooks = Top.hooks
          /\ Last(stack').i = Top.i + 1
          /\ delivered' = delivered
          /\ messageQueue' = messageQueue
          /\ messageHooks' = messageHooks]_vars
  /\ [][SendReturns =>
          \/ lastOp' = Op("hook", "false")
          \/ Top.phase = "inhandler"]_vars
  /\ [][(stack # <<>> /\ Top.kind = "send" /\ Top.phase = "next"
         /\ Len(stack') = Len(stack) /\ stack' # stack) =>
          \/ Last(stack').phase = "inhook" /\ Last(stack').i = Top.i
             /\ Top.hooks[Top.i] # NULL
          \/ Last(stack').phase = "next" /\ Last(stack').i = Top.i + 1
             /\ Top.hooks[Top.i] = NULL
          \/ Last(stack').phase = "inhandler" /\ Top.i > Len(Top.hooks)
             /\ HandlerInvoked]_vars

\* The newer of two hooks of h1 threw: the loop's exception handler was called
\* and the chain stands before the older hook.
C14_Witness ==
  /\ lastOp = Op("exceptionHandler", "loop")
  /\ stack # <<>> /\ Top.kind = "send" /\ Top.phase = "next"
  /\ Len(Top.hooks) = 2 /\ Top.i = 2
  /\ Top.hooks[1] # NULL /\ Top.hooks[2] # NULL
  /\ delivered = <<>>

\* The drain that dispatches the queue entry of send frame d: runMessageLoop
\* calls sendMessage itself, so it is the frame underneath.
DrainOf(d) == d - 1

\* C15: postMessage invokes no hook and no handler; an entry is dispatched only
\* by a drain (a scheduled run or a flush()) that began after the entry was
\* posted; postMessage schedules a loop run when it appends and no run is
\* pending, and at no other time.
C15_PostedIsDeliveredByALaterDrain ==
  /\ [][\A h \in Handlers, m \in Messages :
          (lastOp'.op = "postMessage" /\ PostMessage(h, m)) =>
             /\ stack' = stack /\ delivered' = delivered
             /\ IF lastOp'.res = "appended" /\ loopTaskID = 0
                  THEN /\ loopTaskID' # 0
                       /\ tasks' = tasks \cup {[id |-> loopTaskID', fn |-> "runMessageLoop"]}
                  ELSE loopTaskID' = loopTaskID /\ tasks' = tasks]_vars
  /\ [](\A d \in SendFrames :
          stack[d].entry > 0 =>
             /\ DrainOf(d) \in DrainFrames
             /\ stack[d].entry \in stack[DrainOf(d)].start)

\* No connection of the sender's list is live.
NoLive(s) == \A c \in Range(receiversForSender[s]) : isDeadConnection(conns[c])

\* The step invokes a slot: forEach's callback calls invokeSlot.
SlotInvoked ==
  /\ emitStack # <<>> /\ Last(emitStack).phase = "next"
  /\ Len(emitStack') = Len(emitStack)
  /\ Last(emitStack').phase = "inslot"

\* The list of sender s and the connection objects it holds are as they were.
SenderUntouched(s) ==
  /\ receiversForSender'[s] = receiversForSender[s]
  /\ \A c \in Range(receiversForSender[s]) : conns'[c] = conns[c]

\* C16: disconnectSender(x) leaves no live connection in x's list, and the
\* list of every other sender with the connections in it is as before; an emit
\* invokes only a connection of the list of the signal's sender that is live
\* for that signal, so that after the call an emit of x's signals invokes no
\* slot and an emit of another sender invokes the same slots in the same order.
C16_DisconnectSenderSilencesOnlyIt ==
  /\ [][\A x \in RegistrySenders :
          (lastOp'.op = "disconnectSender" /\ DisconnectSender(x)) =>
             /\ NoLive(x)'
             /\ \A y \in Senders \ {x} : SenderUntouched(y)
             /\ receiversForSender' = receiversForSender
             /\ emitStack' = emitStack]_vars
  /\ [][SlotInvoked =>
          LET f == Last(emitStack)
              c == Last(Last(emitStack').called)
          IN /\ ~NoLive(sender(f.signal))
             /\ c = receiversForSender[sender(f.signal)][f.i]
             /\ conns[c].signal = f.signal
             /\ Last(emitStack').called = Append(f.called, c)
             /\ \A k \in 1..Len(f.called) :
                  \E j \in 1..(f.i - 1) :
                     receiversForSender[sender(f.signal)][j] = f.called[k]]_vars

\* disconnectSender(X) was called when X and Y each had a connection to f:
\* X's connection is cleared and Y's is live.
C16_Witness ==
  /\ lastOp.op = "disconnectSender"
  /\ Len(receiversForSender["X"]) = 1 /\ NoLive("X")
  /\ Len(receiversForSender["Y"]) = 1 /\ ~NoLive("Y")
  /\ sendersForReceiver["f"] = <<1, 2>>

\* The receiver of connection object c: context || slot.
ReceiverOfConn(cs, c) == ReceiverOf(cs[c].slot, cs[c].context)

\* C17: disconnectReceiver(r) leaves no live connection whose receiver is r,
\* whatever its sender, and leaves every other connection and every sender's
\* list as they were, so that the other connections keep their place in the
\* dispatch; an emit invokes only a live connection, which its receiver's list
\* holds, so that none to r is invoked after the call.
C17_DisconnectReceiverSilencesOnlyIt ==
  /\ [][\A r \in RegistryReceivers :
          (lastOp'.op = "disconnectReceiver" /\ DisconnectReceiver(r)) =>
             /\ Len(conns') = Len(conns)
             /\ \A c \in 1..Len(conns) :
                  IF ReceiverOfConn(conns, c) = r
                    THEN isDeadConnection(conns'[c])
                    ELSE conns'[c] = conns[c]
             /\ receiversForSender' = receiversForSender
             /\ sendersForReceiver' = sendersForReceiver
             /\ emitStack' = emitStack]_vars
  /\ [][SlotInvoked =>
          LET c == Last(Last(emitStack').called)
          IN /\ ~isDeadConnection(conns[c])
             /\ c \in Range(sendersForReceiver[ReceiverOfConn(conns, c)])]_vars
  /\ [](\A c \in 1..Len(conns) :
          ~isDeadConnection(conns[c]) =>
             /\ c \in Range(sendersForReceiver[ReceiverOfConn(conns, c)])
             /\ c \in Range(receiversForSender[sender(conns[c].signal)]))

\* disconnectReceiver(f) was called when signal A was connected to f and then
\* to g with the context R: the first connection is cleared, the second is
\* live and second in X's list.
C17_Witness ==
  /\ lastOp.op = "disconnectReceiver"
  /\ receiversForSender["X"] = <<1, 2>>
  /\ isDeadConnection(conns[1]) /\ ReceiverOfConn(conns, 1) = "f"
  /\ conns[2].signal = "A" /\ ReceiverOfConn(conns, 2) = "R"

\* Connection object c is live, of a signal of sender s, with receiver r.
IsBetween(c, s, r) ==
  /\ ~isDeadConnection(conns[c])
  /\ sender(conns[c].signal) = s
  /\ ReceiverOfConn(conns, c) = r

\* C18: disconnectBetween(s, r) clears the live connections of every signal of
\* s whose receiver is r and leaves every other connection as it was; it
\* removes nothing from a list; when s has no receivers or r has no senders it
\* leaves the connections, the lists, the cleaner and the scheduler as they were.
C18_DisconnectBetweenClearsExactlyThePair ==
  [][\A s \in RegistrySenders, r \in RegistryReceivers :
       (lastOp'.op = "disconnectBetween" /\ DisconnectBetween(s, r)) =>
          /\ Len(conns') = Len(conns)
          /\ \A c \in 1..Len(conns) :
               IF IsBetween(c, s, r)
                 THEN isDeadConnection(conns'[c])
                 ELSE conns'[c] = conns[c]
          /\ receiversForSender' = receiversForSender
          /\ sendersForReceiver' = sendersForReceiver
          /\ emitStack' = emitStack
          /\ (Len(receiversForSender[s]) = 0 \/ Len(sendersForReceiver[r]) = 0) =>
               /\ conns' = conns
               /\ connectionCleaner' = connectionCleaner
               /\ tasks' = tasks]_vars

\* disconnectBetween(X, f) was called when the signals A and B of X were both
\* connected to f: both connections are cleared and both lists are registered
\* with the cleaner.
C18_Witness ==
  /\ lastOp.op = "disconnectBetween"
  /\ receiversForSender["X"] = <<1, 2>>
  /\ sendersForReceiver["f"] = <<1, 2>>
  /\ isDeadConnection(conns[1]) /\ isDeadConnection(conns[2])
  /\ connectionCleaner.dirtySet = {ReceiversArray("X"), SendersArray("f")}

\* The live connection objects of cs.
LiveSet(cs) == {c \in 1..Len(cs) : ~isDeadConnection(cs[c])}

\* The connection objects after disconnectSender(x) on cs.
AfterDisconnectSender(cs, x) ==
  LET receivers == receiversForSender[x]
  IN IF Len(receivers) = 0 THEN cs
     ELSE Tombstoned(cs, Range(receivers) \cap LiveSet(cs))

\* The connection objects after disconnectReceiver(x) on cs.
AfterDisconnectReceiver(cs, x) ==
  LET senders == sendersForReceiver[x]
  IN IF Len(senders) = 0 THEN cs
     ELSE Tombstoned(cs, Range(senders) \cap LiveSet(cs))

\* C19: the connections live after disconnectAll(x) are those live after
\* disconnectSender(x) followed by disconnectReceiver(x): a connection is
\* cleared exactly if a signal of x or the receiver x is on it, and every other
\* connection is as it was.
C19_DisconnectAllIsSenderThenReceiver ==
  [][\A x \in RegistrySenders \cup RegistryReceivers :
       (lastOp'.op = "disconnectAll" /\ DisconnectAll(x)) =>
          /\ Len(conns') = Len(conns)
          /\ LiveSet(conns') =
               LiveSet(AfterDisconnectReceiver(AfterDisconnectSender(conns, x), x))
          /\ \A c \in LiveSet(conns) :
               IF sender(conns[c].signal) = x \/ ReceiverOfConn(conns, c) = x
                 THEN isDeadConnection(conns'[c])
                 ELSE conns'[c] = conns[c]
          /\ receiversForSender' = receiversForSender
          /\ sendersForReceiver' = sendersForReceiver]_vars

\* disconnectAll(X) was called when X had a connection of its signal A to f
\* and was the context of a connection of Y's signal C: both are cleared, and
\* X's two lists are the ones registered with the cleaner.
C19_Witness ==
  /\ lastOp.op = "disconnectAll"
  /\ receiversForSender["X"] = <<1>> /\ sendersForReceiver["f"] = <<1>>
  /\ sendersForReceiver["X"] = <<2>> /\ receiversForSender["Y"] = <<2>>
  /\ isDeadConnection(conns[1]) /\ isDeadConnection(conns[2])
  /\ connectionCleaner.dirtySet = {ReceiversArray("X"), SendersArray("X")}

\* The index lists that hold a cleared connection.
ListsWithTombstone ==
  {ReceiversArray(o) : o \in {x \in Objects :
      \E c \in Range(receiversForSender[x]) : isDeadConnection(conns[c])}}
  \cup
  {SendersArray(o) : o \in {x \in Objects :
      \E c \in Range(sendersForReceiver[x]) : isDeadConnection(conns[c])}}

\* C20: every index list that holds a cleared connection is registered with
\* the connection cleaner, and a compaction is scheduled, from the call that
\* cleared the connection until the compaction has run.
C20_TombstonedListsAreRegistered ==
  /\ ListsWithTombstone \subseteq connectionCleaner.dirtySet
  /\ ListsWithTombstone # {} =>
       \E t \in tasks : t.fn = "connectionCleaner" /\ t.id = connectionCleaner.scheduleId

\* The live connection objects of cs that match the tuple.
Matching(cs, signal, slot, context) ==
  {c \in LiveSet(cs) :
     cs[c].signal = signal /\ cs[c].slot = slot /\ cs[c].context = context}

\* C21: disconnect(signal, slot, context) returns true exactly when a live
\* connection matches the three; there is one such connection at most, and it
\* is the one cleared.  Otherwise disconnect returns false and leaves the
\* connections, the cleaner and the scheduler as they were.  No list changes,
\* and afterwards no live connection matches, so that the same call made again
\* returns false.
C21_DisconnectReportsAndClearsTheMatch ==
  [][\A t \in Wiring :
       (lastOp'.op = "disconnect" /\ Disconnect(t[1], t[2], t[3])) =>
          LET match == Matching(conns, t[1], t[2], t[3])
          IN /\ Cardinality(match) <= 1
             /\ lastOp'.res = IF match # {} THEN "true" ELSE "false"
             /\ Len(conns') = Len(conns)
             /\ \A c \in 1..Len(conns) :
                  IF c \in match THEN isDeadConnection(conns'[c])
                                 ELSE conns'[c] = conns[c]
             /\ match = {} =>
                  /\ connectionCleaner' = connectionCleaner
                  /\ tasks' = tasks
             /\ Matching(conns', t[1], t[2], t[3]) = {}
             /\ receiversForSender' = receiversForSender
             /\ sendersForReceiver' = sendersForReceiver
             /\ emitStack' = emitStack]_vars

\* Signal A was connected to f without a context and to f with the context R;
\* a disconnect returned true: the first connection is cleared and the second
\* is live.
C21_Witness ==
  /\ lastOp = Op("disconnect", "true")
  /\ Len(conns) = 2
  /\ conns[1] = [signal |-> NULL, slot |-> "f", context |-> NULL]
  /\ conns[2] = [signal |-> "A", slot |-> "f", context |-> "R"]
  /\ receiversForSender["X"] = <<1, 2>>

\* The number of times connection c is in the sequence q.
Occurrences(q, c) == Cardinality({k \in 1..Len(q) : q[k] = c})

\* C22: connect of a tuple that no live connection matches returns true, also
\* when a cleared connection of the same tuple is still in the list, and adds
\* the new connection at the end of the sender's list and of the receiver's
\* list; an emit invokes the connections of its signal in list order, none
\* twice, so that the new connection is invoked once and after the others.
C22_ReconnectAfterDisconnect ==
  /\ [][\A t \in Wiring :
          (lastOp'.op = "connect" /\ Connect(t[1], t[2], t[3])) =>
             LET new == Len(conns) + 1
             IN IF Matching(conns, t[1], t[2], t[3]) = {}
                  THEN /\ lastOp'.res = "true"
                       /\ conns' = Append(conns, [signal |-> t[1], slot |-> t[2],
                                                  context |-> t[3]])
                       /\ receiversForSender'[sender(t[1])] =
                            Append(receiversForSender[sender(t[1])], new)
                       /\ sendersForReceiver'[ReceiverOf(t[2], t[3])] =
                            Append(sendersForReceiver[ReceiverOf(t[2], t[3])], new)
                       /\ Matching(conns', t[1], t[2], t[3]) = {new}
                  ELSE /\ lastOp'.res = "false"
                       /\ conns' = conns
                       /\ receiversForSender' = receiversForSender]_vars
  /\ [](\A d \in 1..Len(emitStack) :
          LET f == emitStack[d]
              receivers == receiversForSender[sender(f.signal)]
          IN /\ \A k \in 1..Len(f.called) : Occurrences(f.called, f.called[k]) = 1
             /\ \A k, l \in 1..Len(f.called) :
                  k < l => PosIn(receivers, f.called[k]) < PosIn(receivers, f.called[l]))
  /\ [][(emitStack # <<>> /\ Len(emitStack') < Len(emitStack)) =>
          LET f == Last(emitStack)
          IN \A c \in Range(f.snapshot) :
               conns[c].signal = f.signal => Occurrences(f.called, c) = 1]_vars

\* Signal A was connected to f, disconnected and connected to f again before
\* any compaction; an emit of A is inside the slot of the new connection, the
\* only one it has invoked.
C22_Witness ==
  /\ Len(conns) = 2
  /\ conns[1] = [signal |-> NULL, slot |-> "f", context |-> NULL]
  /\ conns[2] = [signal |-> "A", slot |-> "f", context |-> NULL]
  /\ receiversForSender["X"] = <<1, 2>>
  /\ emitStack # <<>> /\ Last(emitStack).signal = "A"
  /\ Last(emitStack).phase = "inslot" /\ Last(emitStack).called = <<2>>
  /\ Last(emitStack).snapshot = <<2>>

\* No hook is twice in the sequence q; null entries are not hooks.
NoHookTwice(q) ==
  \A k, l \in 1..Len(q) : (k # l /\ q[k] # NULL) => q[k] # q[l]

\* C23: installMessageHook of a hook that is in the handler's list changes
\* nothing; a handler's list never holds a hook twice, and neither does the
\* copy a dispatch goes through, so that a hook is consulted once at most for
\* a message; an install that adds the hook adds it at the end and leaves the
\* hooks before it where they were.
C23_InstallIsIdempotent ==
  /\ [][\A h \in HookHandlers, k \in Hooks :
          (lastOp'.op = "installMessageHook" /\ InstallMessageHook(h, k)) =>
             IF k \in Range(messageHooks[h])
               THEN /\ lastOp'.res = "noop"
                    /\ messageHooks' = messageHooks
                    /\ hookCleaner' = hookCleaner /\ tasks' = tasks
                    /\ stack' = stack /\ messageQueue' = messageQueue
               ELSE /\ lastOp'.res = "installed"
                    /\ messageHooks'[h] = Append(messageHooks[h], k)]_vars
  /\ [](\A h \in Handlers : NoHookTwice(messageHooks[h]))
  /\ [](\A d \in SendFrames : NoHookTwice(stack[d].hooks))

\* While the hook k2 of h1 was running for a posted message, k1, which was
\* installed before k2, was installed again: the list is as it was.
C23_Witness ==
  /\ lastOp = Op("installMessageHook", "noop")
  /\ messageHooks["h1"] = <<"k1", "k2">>
  /\ stack # <<>> /\ Top.kind = "send" /\ Top.phase = "inhook"
  /\ Top.hooks = <<"k2", "k1">> /\ Top.i = 1

\* C24: removeMessageHook, also when the hook that is running calls it on
\* itself, leaves every running dispatch as it is, so that the hook's
\* invocation, the rest of the chain and the handler go on as without the
\* call; the hook is in the handler's list no more, and a chain evaluation
\* that begins later consults only the hooks in the list when it begins.
\* Removing a hook that is not in the list changes nothing.
C24_RemoveWhileRunning ==
  /\ [][\A h \in HookHandlers, k \in Hooks :
          (lastOp'.op = "removeMessageHook" /\ RemoveMessageHook(h, k)) =>
             /\ stack' = stack /\ delivered' = delivered
             /\ messageQueue' = messageQueue
             /\ k \notin Range(messageHooks'[h])
             /\ Len(messageHooks'[h]) = Len(messageHooks[h])
             /\ \A i \in 1..Len(messageHooks[h]) :
                  messageHooks'[h][i] =
                    IF messageHooks[h][i] = k THEN NULL ELSE messageHooks[h][i]
             /\ k \notin Range(messageHooks[h]) =>
                  /\ lastOp'.res = "noop"
                  /\ messageHooks' = messageHooks
                  /\ hookCleaner' = hookCleaner /\ tasks' = tasks]_vars
  /\ [][SendBegins =>
          /\ Len(Last(stack').hooks) = Len(messageHooks[Last(stack').handler])
          /\ Range(Last(stack').hooks) = Range(messageHooks[Last(stack').handler])]_vars
  /\ [][HookInvoked =>
          /\ Last(stack').hooks[Last(stack').i] # NULL
          /\ Len(stack) = Len(stack') => Last(stack').hooks = Top.hooks]_vars

\* The hook k2 of h1, running for a posted message, removed itself: its entry
\* in the list is null, and the dispatch it runs in still has k1 to consult.
C24_Witness ==
  /\ lastOp = Op("removeMessageHook", "removed")
  /\ messageHooks["h1"] = <<"k1", NULL>>
  /\ stack # <<>> /\ Top.kind = "send" /\ Top.phase = "inhook"
  /\ Top.hooks = <<"k2", "k1">> /\ Top.i = 1

\* The compaction tasks of the cleaner that the scheduler holds.
CleanerTasks == {t \in tasks : t.fn = "hookCleaner"}

\* C25: when clean(items) returns, the scheduler holds exactly one compaction
\* task of the cleaner, and it is the one the cleaner knows; a clean of an
\* array that is pending already leaves the scheduler and the pending set as
\* they were.
C25_OneTaskAfterClean ==
  [][\A a \in Handlers :
       (lastOp'.op = "clean" /\ CleanCall(a)) =>
          /\ Cardinality(CleanerTasks') = 1
          /\ \A t \in CleanerTasks' : t.id = hookCleaner'.scheduleId
          /\ a \in hookCleaner'.dirtySet
          /\ a \in hookCleaner.dirtySet =>
               (tasks' = tasks /\ hookCleaner'.dirtySet = hookCleaner.dirtySet)]_vars

\* The step is a call of the cleaner's flush().
FlushCalled == lastOp'.op = "cleanerFlush"

\* C26: flush(), called while an array is pending, leaves no removable entry
\* in a pending array, leaves the other entries and the other arrays as they
\* were and empties the pending set; called with nothing pending, as a second
\* flush in a row is, it changes no array.
C26_FlushCompactsWhatIsPending ==
  [][(FlushCalled /\ FlushCall) =>
       IF hookCleaner.dirtySet # {} /\ ~hookCleaner.flushGuard
         THEN /\ \A a \in hookCleaner.dirtySet :
                   /\ \A k \in 1..Len(messageHooks'[a]) : ~isNullHook(messageHooks'[a][k])
                   /\ messageHooks'[a] = SelectSeq(messageHooks[a], LAMBDA x : ~isNullHook(x))
              /\ \A a \in Handlers \ hookCleaner.dirtySet :
                   messageHooks'[a] = messageHooks[a]
              /\ hookCleaner'.dirtySet = {}
         ELSE messageHooks' = messageHooks]_vars

\* C27: cancel() leaves no compaction task of the cleaner with the scheduler
\* and changes neither an array nor the pending set; with no task scheduled it
\* leaves the scheduler as it was.  While arrays are pending and no task is
\* scheduled, which is the state after clean and cancel, no step changes an
\* array or schedules a task, so the arrays keep their entries for good.
C27_CancelStopsTheCompaction ==
  /\ [][(lastOp'.op = "cancel" /\ CancelCall) =>
          /\ CleanerTasks' = {}
          /\ messageHooks' = messageHooks
          /\ hookCleaner'.dirtySet = hookCleaner.dirtySet
          /\ CleanerTasks = {} => tasks' = tasks]_vars
  /\ [][(CleanerTasks = {} /\ hookCleaner.dirtySet # {}) =>
          /\ messageHooks' = messageHooks
          /\ CleanerTasks' = {}
          /\ hookCleaner.dirtySet \subseteq hookCleaner'.dirtySet]_vars

\* clean(h1) was called for an array with a removable entry between two
\* others, then cancel(): the array is pending, no task is scheduled and the
\* array has its three entries.
C27_Witness ==
  /\ lastOp = Op("cancel", "")
  /\ hookCleaner.dirtySet = {"h1"}
  /\ hookCleaner.scheduleId = 0
  /\ tasks = {}
  /\ messageHooks["h1"] = <<"k1", NULL, "k2">>

\* The step is a compaction pass of the cleaner: its task fires, or flush()
\* runs dump().
CompactionPass ==
  \/ HookCleanerTask
  \/ lastOp' = Op("cleanerFlush", "dump") /\ FlushCall

\* q is p without some of its entries, the others in the order they have in p:
\* m maps the places of q to places of p, increasing.
KeepsOrder(q, p) ==
  \E m \in [1..Len(q) -> 1..Len(p)] :
     /\ \A k \in 1..Len(q) : q[k] = p[m[k]]
     /\ \A k, l \in 1..Len(q) : k < l => m[k] < m[l]

\* C28: a compaction pass leaves in each pending array the entries that
\* shouldRemove rejects, all of them and in the order they had, and no entry
\* that it accepts; it leaves the pending set empty and every array that was
\* not pending as it was.
C28_CompactionRemovesExactlyTheRemovable ==
  [][(lastOp'.op \in {"step", "cleanerFlush"} /\ CompactionPass) =>
       /\ hookCleaner'.dirtySet = {}
       /\ \A a \in hookCleaner.dirtySet :
            LET kept == {k \in 1..Len(messageHooks[a]) : ~isNullHook(messageHooks[a][k])}
            IN /\ Len(messageHooks'[a]) = Cardinality(kept)
               /\ \A k \in 1..Len(messageHooks'[a]) : ~isNullHook(messageHooks'[a][k])
               /\ KeepsOrder(messageHooks'[a], messageHooks[a])
       /\ \A a \in Handlers \ hookCleaner.dirtySet : messageHooks'[a] = messageHooks[a]]_vars

\* flush() ran a compaction pass: the array h1 has its two hooks in their
\* order and no null entry, the array h2, which was not pending, has its null
\* entries, and nothing is pending.
C28_Witness ==
  /\ lastOp = Op("cleanerFlush", "dump")
  /\ hookCleaner.dirtySet = {}
  /\ messageHooks["h1"] = <<"k2", "k1">>
  /\ messageHooks["h2"] = <<NULL, "k1", NULL>>

\* The calls that clear entries.
ClearingOps ==
  {"disconnect", "disconnectBetween", "disconnectSender", "disconnectReceiver",
   "disconnectAll", "removeMessageHook", "clearData"}

\* What clearing does to an entry of each kind of list: a hook becomes null, a
\* queue entry loses its handler and its message, and an entry of an index
\* list is never written (the connection object it names is).
HookCleared(was, is) == is = NULL

EntryCleared(was, is) == is = [was EXCEPT !.handler = NULL, !.msg = NullMsg]

NeverCleared(was, is) == FALSE

\* The list q after a step in which nothing was taken out of it: as long or
\* longer, and place by place the entry it had or that entry cleared.
InPlace(q, p, kind) ==
  /\ Len(q) >= Len(p)
  /\ \A k \in 1..Len(p) :
       \/ q[k] = p[k]
       \/ CASE kind = "hook" -> HookCleared(p[k], q[k])
            [] kind = "entry" -> EntryCleared(p[k], q[k])
            [] OTHER -> NeverCleared(p[k], q[k])

\* The tasks of the scheduler that run callback fn.
TasksOf(fn) == {t \in tasks : t.fn = fn}

\* C29: a disconnect operation, removeMessageHook or clearData leaves every
\* index list, every hook list and the message queue with the length and the
\* order they had, entries being cleared in place (a connection in its object,
\* which both lists hold).  An index list or a hook list loses entries only in
\* the step in which its cleaner's task runs, the queue only by a drain
\* taking its first entry.
C29_ClearingNeverShrinks ==
  /\ [][lastOp'.op \in ClearingOps =>
          /\ \A o \in Objects :
               /\ receiversForSender'[o] = receiversForSender[o]
               /\ sendersForReceiver'[o] = sendersForReceiver[o]
          /\ Len(conns') = Len(conns)
          /\ \A c \in 1..Len(conns) :
               conns'[c] = conns[c] \/ conns'[c] = [conns[c] EXCEPT !.signal = NULL]
          /\ \A h \in Handlers :
               /\ Len(messageHooks'[h]) = Len(messageHooks[h])
               /\ InPlace(messageHooks'[h], messageHooks[h], "hook")
          /\ Len(messageQueue') = Len(messageQueue)
          /\ InPlace(messageQueue', messageQueue, "entry")]_vars
  /\ [][TasksOf("connectionCleaner") \subseteq TasksOf("connectionCleaner")' =>
          \A o \in Objects :
             /\ InPlace(receiversForSender'[o], receiversForSender[o], "index")
             /\ InPlace(sendersForReceiver'[o], sendersForReceiver[o], "index")]_vars
  /\ [][TasksOf("hookCleaner") \subseteq TasksOf("hookCleaner")' =>
          \A h \in Handlers :
             InPlace(messageHooks'[h], messageHooks[h], "hook")]_vars
  /\ [][\/ InPlace(messageQueue', messageQueue, "entry")
        \/ /\ messageQueue # <<>> /\ messageQueue' = Tail(messageQueue)
           /\ stack # <<>> /\ Top.kind = "drain"]_vars

\* The older of the two hooks of h1 was removed: the list has its two places,
\* the first one null.
C29_Witness ==
  /\ lastOp = Op("removeMessageHook", "removed")
  /\ messageHooks["h1"] = <<NULL, "k2">>
  /\ "h1" \in hookCleaner.dirtySet
  /\ TasksOf("hookCleaner") # {}

\* The queue positions of the candidates of the scan for (h, m) whose
\* conflate() returns true, and of those whose conflate() returns false.
Accepting(h, m) ==
  {k \in 1..Len(messageQueue) :
     Candidate(messageQueue[k], h, m) /\ messageQueue[k].msg.conflate}

Declining(h, m) ==
  {k \in 1..Len(messageQueue) :
     Candidate(messageQueue[k], h, m) /\ ~messageQueue[k].msg.conflate}

\* C30: a conflatable message is dropped when a candidate's conflate()
\* returns true, also when candidates whose conflate() returns false are ahead
\* of it in the queue; it is appended as a fresh entry exactly when no
\* candidate's conflate() returns true, behind the candidates that declined.
C30_ScanGoesPastDecliningCandidates ==
  [][\A h \in Handlers, m \in Messages :
       (lastOp'.op = "postMessage" /\ m.isConflatable /\ PostMessage(h, m)) =>
          IF Accepting(h, m) # {}
            THEN /\ lastOp'.res = "conflated"
                 /\ messageQueue' = messageQueue /\ posts' = posts
            ELSE /\ lastOp'.res = "appended"
                 /\ AppendedEntry(h, m)
                 /\ \A k \in Declining(h, m) : messageQueue'[k] = messageQueue[k]]_vars

\* A conflatable message of type a was posted to h1 while the queue held an
\* entry of h1 of that type whose conflate() declines and, behind it, one
\* whose conflate() accepts: the message was dropped.
C30_Witness ==
  /\ lastOp = Op("postMessage", "conflated")
  /\ Len(messageQueue) = 2 /\ posts = 2
  /\ messageQueue[1].handler = "h1" /\ messageQueue[1].msg = DecliningMsg("a")
  /\ messageQueue[2].handler = "h1" /\ messageQueue[2].msg = ConflatableMessage("a")
  /\ stack = <<>>

\* The connections of the list of frame f that belong to another signal of
\* the same sender.
OfOtherSignal(f) ==
  {c \in Range(ListOf(f)) : conns[c].signal \notin {f.signal, NULL}}

\* C31: emit of a signal invokes a connection of the list of its sender only
\* if the connection belongs to that signal, at the index forEach is at, after
\* every connection of the signal ahead of it in the shared list; a connection
\* that belongs to another signal of the sender is never among those invoked.
C31_EmitFiltersBySignal ==
  /\ [][Invoked # 0 =>
          LET f == Last(emitStack)
          IN /\ conns[Invoked].signal = f.signal
             /\ Invoked = ListOf(f)[f.i]
             /\ \A j \in 1..(f.i - 1) :
                  conns[ListOf(f)[j]].signal = f.signal => ListOf(f)[j] \in Range(f.called)
             /\ \A c \in Range(f.called) : PosIn(ListOf(f), c) < f.i]_vars
  /\ [](\A k \in 1..Len(emitStack) :
          Range(emitStack[k].called) \cap OfOtherSignal(emitStack[k]) = {})

\* The sender's list holds a connection of A, one of B and another of A; an
\* emission of A has gone through the list and invoked the first and the third.
C31_Witness ==
  /\ emitStack # <<>>
  /\ LET f == Last(emitStack)
     IN /\ f.signal = "A" /\ f.i > f.n
        /\ ListOf(f) = <<1, 2, 3>>
        /\ conns[1].signal = "A" /\ conns[2].signal = "B" /\ conns[3].signal = "A"
        /\ f.called = <<1, 3>>

\* The emit calls below the one on top of the stack.
Outer(stk) == SubSeq(stk, 1, Len(stk) - 1)

\* An emit is called from inside a slot of a running emission.
NestedEmitBegins == emitStack # <<>> /\ Len(emitStack') = Len(emitStack) + 1

\* An emit that was called from inside a slot returns to that slot.
NestedEmitReturns == Len(emitStack) >= 2 /\ emitStack' = Pop(emitStack)

\* C32: an emit called from inside a slot of the signal starts a pass of its
\* own over the list, from the first index and bounded by the length the list
\* has at that moment, which leaves the passes below it as they are for as
\* long as it runs; it invokes every connection within its bound that is
\* connected when it reaches it, those made earlier in the outer pass
\* included, and it returns only after its last index.  The outer pass is
\* then at the index and has the bound it had, and goes on to its next index.
C32_NestedEmitIsItsOwnPass ==
  /\ [][NestedEmitBegins =>
          LET f == Last(emitStack')
          IN /\ Outer(emitStack') = emitStack
             /\ f.i = 1 /\ f.n = Len(ListOf(f)) /\ f.called = <<>>
             /\ Range(f.snapshot) = LiveWithin(f, f.n)]_vars
  /\ [][(Len(emitStack) >= 2 /\ Len(emitStack') = Len(emitStack)) =>
          Outer(emitStack') = Outer(emitStack)]_vars
  /\ [](\A k \in 1..Len(emitStack) :
          LET f == emitStack[k]
          IN /\ k < Len(emitStack) => f.phase = "inslot" /\ f.i <= f.n
             /\ \A c \in LiveWithin(f, f.n) :
                  PosIn(ListOf(f), c) < f.i => c \in Range(f.called))
  /\ [][NestedEmitReturns =>
          LET f == Last(emitStack)
              outer == Last(emitStack')
          IN /\ f.i > f.n
             /\ LiveWithin(f, f.n) \subseteq Range(f.called)
             /\ outer = emitStack[Len(emitStack) - 1]]_vars
  /\ [][(Len(emitStack) = Len(emitStack') /\ emitStack # <<>>
          /\ Last(emitStack).phase = "inslot" /\ Last(emitStack').phase = "next") =>
          /\ Last(emitStack').i = Last(emitStack).i + 1
          /\ Last(emitStack').n = Last(emitStack).n]_vars

\* The first slot of an emission over a list of one connection has connected
\* a second slot and emitted the signal again; the nested pass has gone
\* through both connections, and the outer pass is still at its first index
\* with its bound of one.
C32_Witness ==
  /\ Len(emitStack) = 2
  /\ emitStack[1].n = 1 /\ emitStack[1].i = 1 /\ emitStack[1].phase = "inslot"
  /\ emitStack[2].n = 2 /\ emitStack[2].i > 2 /\ emitStack[2].called = <<1, 2>>

\* A queue entry that clearData has cleared; a sentinel has a negative id.
IsClearedEntry(posted) == posted.id > 0 /\ posted.handler = NULL

\* The entries that drain d of the stack took from the queue and did not
\* dispatch; every dispatch of these runs invokes the handler.
Skipped(d) == stack[d].done \ {delivered[i].entry : i \in 1..Len(delivered)}

\* The drain on top of the stack leaves its while loop.
DrainEnds == stack # <<>> /\ Top.kind = "drain" /\ Len(stack') < Len(stack)

\* C33: clearData(h) called while a drain runs clears the entries of h where
\* they are and leaves every other entry, the sentinels among them, as it is;
\* a drain that takes a cleared entry from the queue dispatches nothing and
\* goes on; a drain that has skipped a cleared entry ends by taking its own
\* sentinel from the queue; and the entries that are delivered are delivered
\* in the order they were posted in.
C33_ClearedEntriesAreSkippedUpToTheSentinel ==
  /\ [][\A h \in Handlers :
          (lastOp'.op = "clearData" /\ DrainInProgress /\ ClearData(h)) =>
             /\ Len(messageQueue') = Len(messageQueue)
             /\ \A k \in 1..Len(messageQueue) :
                  IF messageQueue[k].handler = h
                    THEN /\ IsClearedEntry(messageQueue'[k])
                         /\ messageQueue'[k].id = messageQueue[k].id
                    ELSE messageQueue'[k] = messageQueue[k]]_vars
  /\ [][(/\ stack # <<>> /\ Top.kind = "drain" /\ messageQueue # <<>>
         /\ IsClearedEntry(Head(messageQueue))) =>
          /\ messageQueue' = Tail(messageQueue)
          /\ delivered' = delivered
          /\ Len(stack') = Len(stack)
          /\ Last(stack').kind = "drain" /\ Last(stack').sentinel = Top.sentinel]_vars
  /\ [][(DrainEnds /\ Skipped(Len(stack)) # {}) =>
          messageQueue # <<>> /\ Head(messageQueue).id = Top.sentinel]_vars
  /\ [](\A i, j \in 1..Len(delivered) :
          i < j => delivered[i].entry < delivered[j].entry)

\* The sentinel of drain d of the stack is an entry of the queue.
SentinelQueued(d) ==
  \E k \in 1..Len(messageQueue) : messageQueue[k].id = stack[d].sentinel

\* C34: no drain has taken an entry from an empty queue, and the sentinel of
\* every drain that is running is in the queue.
C34_DrainNeverShiftsAnEmptyQueue ==
  /\ ~popFault
  /\ \A d \in DrainFrames : SentinelQueued(d)

\* Entry e is in the queue and has not been cleared.
QueuedLive(e) ==
  \E k \in 1..Len(messageQueue) :
    messageQueue[k].id = e /\ messageQueue[k].handler # NULL

\* Entry e is in the queue and clearData has cleared it.
QueuedCleared(e) ==
  \E k \in 1..Len(messageQueue) :
    messageQueue[k].id = e /\ IsClearedEntry(messageQueue[k])

\* sendMessage is running for entry e.
Dispatching(e) ==
  \E d \in 1..Len(stack) : stack[d].kind = "send" /\ stack[d].entry = e

\* C35: when no drain is running and the queue is not empty, loopTaskID is
\* the handle of a loop run that the scheduler holds; and when the scheduler
\* fires every task, an entry that postMessage appended is in the end either
\* cleared by clearData or dispatched.
C35_QueuedIsScheduledAndDispatched ==
  /\ []((DrainFrames = {} /\ messageQueue # <<>>) =>
          /\ loopTaskID # 0
          /\ [id |-> loopTaskID, fn |-> "runMessageLoop"] \in tasks)
  /\ \A e \in 1..MaxPosts :
       QueuedLive(e) ~> (Dispatching(e) \/ QueuedCleared(e))

\* A handler posted a message during a drain that has ended since: the entry
\* waits in the queue for the run that the post scheduled.
C35_Witness ==
  /\ stack = <<>> /\ delivered # <<>>
  /\ Len(messageQueue) = 1 /\ QueuedLive(messageQueue[1].id)
  /\ loopTaskID # 0

\* The entry objects in the queue q.
QueueIds(q) == {q[k].id : k \in 1..Len(q)}

\* C36: an entry is in the queue once; the dispatch of an entry begins by
\* taking it from the head of the queue, and an entry that has left the queue
\* never comes back to it; so no two dispatches, running or past, are of the
\* same entry, and processMessage is invoked at most once for an entry.
C36_DispatchedAtMostOnce ==
  /\ [](\A k, l \in 1..Len(messageQueue) :
          k # l => messageQueue[k].id # messageQueue[l].id)
  /\ [](\A d \in SendFrames :
          stack[d].entry > 0 =>
             /\ stack[d].entry \notin QueueIds(messageQueue)
             /\ \A c \in SendFrames \ {d} : stack[c].entry # stack[d].entry)
  /\ [][DispatchBegins =>
          /\ messageQueue # <<>>
          /\ Last(stack').entry = Head(messageQueue).id
          /\ messageQueue' = Tail(messageQueue)]_vars
  /\ [][\A e \in QueueIds(messageQueue') \ QueueIds(messageQueue) :
          e > 0 => e = posts + 1 /\ posts' = posts + 1]_vars
  /\ [](Cardinality({delivered[i].entry : i \in 1..Len(delivered)}) = Len(delivered))

\* A handler posted a message and called flush() during a drain that the loop
\* task had started: the nested drain consumed the outer sentinel and the
\* outer drain failed on the empty queue, and each of the two entries was
\* delivered once.
C36_Witness ==
  /\ popFault
  /\ Len(delivered) = 2
  /\ delivered[1].entry = 1 /\ delivered[2].entry = 2

\* C37: a hook is invoked for a handler only while it is in the handler's
\* list, that is, installed and not removed since.
C37_RemovedHookIsNotInvoked ==
  [][HookInvoked =>
       Last(stack').hooks[Last(stack').i] \in Range(messageHooks[Last(stack').handler])]_vars

\* sendMessage is running for an entry of handler h that a drain dispatched.
Processing(h) ==
  \E d \in SendFrames : stack[d].handler = h /\ stack[d].entry > 0

\* C38: when a handler is processing a posted conflatable message, the entry
\* of that message is no longer in the queue, so an equal message posted
\* meanwhile is appended unless an entry that is in the queue conflates it;
\* and the drain that took the first entry from the queue does not dispatch
\* the second: no drain dispatches two entries of one handler.
C38_EqualMessagePostedWhileProcessing ==
  /\ [](\A d \in SendFrames :
          stack[d].entry > 0 => stack[d].entry \notin QueueIds(messageQueue))
  /\ [][\A h \in Handlers :
          (lastOp'.op = "postMessage" /\ Processing(h) /\ PostMessage(h, EqualMessage)) =>
             IF Accepting(h, EqualMessage) = {}
               THEN lastOp'.res = "appended" /\ AppendedEntry(h, EqualMessage)
               ELSE lastOp'.res = "conflated" /\ messageQueue' = messageQueue]_vars
  /\ [](\A d \in SendFrames, i \in 1..Len(delivered) :
          (/\ stack[d].entry > 0
           /\ delivered[i].handler = stack[d].handler
           /\ delivered[i].entry # stack[d].entry) =>
             delivered[i].entry \notin stack[DrainOf(d)].done)

\* The connected connection objects of cs, in their order of creation.
LiveObjects(cs) == SelectSeq(cs, LAMBDA x : ~isDeadConnection(x))

\* C39: slot and context of a connection object never change, and its signal
\* changes only to null; only cleared objects are ever discarded; emit
\* invokes a slot only through an object whose signal is the emitted one; and
\* a connect that returns true leaves every older object as it is, a cleared
\* one of the same tuple included, and creates a new object that is the last
\* entry of the sender's list and of the receiver's list.
C39_ClearedConnectionStaysCleared ==
  /\ [][IF Len(conns') >= Len(conns)
          THEN \A c \in 1..Len(conns) :
                 /\ conns'[c].slot = conns[c].slot
                 /\ conns'[c].context = conns[c].context
                 /\ conns'[c].signal \in {conns[c].signal, NULL}
          ELSE LiveObjects(conns') = LiveObjects(conns)]_vars
  /\ [][Invoked # 0 =>
          /\ ~isDeadConnection(conns[Invoked])
          /\ conns[Invoked].signal = Last(emitStack).signal
          /\ conns' = conns]_vars
  /\ [][lastOp' = Op("connect", "true") =>
          LET new == Len(conns')
              made == conns'[new]
          IN /\ new = Len(conns) + 1
             /\ ~isDeadConnection(made)
             /\ \A c \in 1..Len(conns) : conns'[c] = conns[c]
             /\ \A o \in Objects :
                  new \notin Range(receiversForSender[o]) \cup Range(sendersForReceiver[o])
             /\ Last(receiversForSender'[sender(made.signal)]) = new
             /\ Occurrences(receiversForSender'[sender(made.signal)], new) = 1
             /\ Last(sendersForReceiver'[ReceiverOf(made.slot, made.context)]) = new
             /\ Occurrences(sendersForReceiver'[ReceiverOf(made.slot, made.context)], new) = 1]_vars

\* Signal A was connected to g, disconnected and connected to g again; both
\* objects are in the two lists, the older one cleared, and an emission of A
\* has gone through the list and invoked g through the newer one alone.
C39_Witness ==
  /\ Len(conns) = 2
  /\ conns[1] = [signal |-> NULL, slot |-> "g", context |-> NULL]
  /\ conns[2] = [signal |-> "A", slot |-> "g", context |-> NULL]
  /\ receiversForSender["X"] = <<1, 2>> /\ sendersForReceiver["g"] = <<1, 2>>
  /\ emitStack # <<>> /\ Last(emitStack).i > Last(emitStack).n
  /\ Last(emitStack).n = 2 /\ Last(emitStack).called = <<2>>

====
